---------------------------- MODULE Spec2Model ----------------------------
(***************************************************************************)
(* Balance-sweep scripts of megaeth-faucet-sender-test.                    *)
(*                                                                         *)
(* The repository is a collection of stand-alone scripts.  Each script is  *)
(* modelled as one process whose state is a record held in one variable:   *)
(*                                                                         *)
(*   con    ETHConsolidator, src/index.js (first script, lines 1-403)      *)
(*   dash   buffered-gas dashboard, src/unnamed/part_010 (lines 190-488)   *)
(*   clu    prefix-cluster script, src/unnamed/part_013                    *)
(*   box    summary-box dashboard, src/unnamed/part_004 (lines 1-163)      *)
(*   xfer   transferETH script, src/unnamed/part_012                       *)
(*   chunk  chunked cluster script, src/unnamed/part_008                   *)
(*   est    gas-estimate dashboard, src/unnamed/part_002                   *)
(*   tab    table dashboard, src/unnamed/part_003                          *)
(*   wal    wallet-status table script, src/unnamed/part_006               *)
(*   aud    audit-log script, src/unnamed/part_001                         *)
(*   donut  donut dashboard, src/index.js (second script, lines 404-567)   *)
(*   grp    prefix-group script, src/unnamed/part_005 (lines 1-152)        *)
(*   prim   primary and workers' progress messages, src/unnamed/part_007   *)
(*          (lines 224-289) and src/unnamed/part_005 (lines 328-373)       *)
(*                                                                         *)
(* A script that is not launched stays in the record Off.  One step of a   *)
(* process is the code that runs between two suspension points (awaits on  *)
(* the chain client); the client's answer is the input of the step.        *)
(*                                                                         *)
(* Amounts are integers.  The BigInt scripts (dash, clu, chunk, est, aud,  *)
(* grp) count in gwei (10^9 wei) and fee rates in gwei per gas unit; the   *)
(* scripts that work on floating ETH amounts (con, box, xfer, tab, wal,    *)
(* donut) count in 10^-7 ETH, one digit below the 6 decimals their         *)
(* toFixed(6) keeps.                                                       *)
(***************************************************************************)
EXTENDS Integers, Sequences, FiniteSets, TLC

VARIABLES con, dash, clu, box, xfer, chunk, est, tab, wal, aud, donut, grp, prim

vars ==
  <<con, dash, clu, box, xfer, chunk, est, tab, wal, aud, donut, grp,
  prim>>

\* A script that was not launched.
Off == [pc |-> "off"]

\* Only one script runs in a behaviour; the others stay as they are.
ConOnly ==
  dash = Off /\ clu = Off /\ box = Off /\ xfer = Off /\ chunk = Off /\
  est = Off /\ tab = Off /\ wal = Off /\ aud = Off /\ donut = Off /\
  grp = Off /\ prim = Off
ConFrame ==
  UNCHANGED
    <<dash, clu, box, xfer, chunk, est, tab, wal, aud, donut, grp, prim>>
DashOnly ==
  con = Off /\ clu = Off /\ box = Off /\ xfer = Off /\ chunk = Off /\
  est = Off /\ tab = Off /\ wal = Off /\ aud = Off /\ donut = Off /\
  grp = Off /\ prim = Off
DashFrame ==
  UNCHANGED
    <<con, clu, box, xfer, chunk, est, tab, wal, aud, donut, grp, prim>>
CluOnly ==
  con = Off /\ dash = Off /\ box = Off /\ xfer = Off /\ chunk = Off /\
  est = Off /\ tab = Off /\ wal = Off /\ aud = Off /\ donut = Off /\
  grp = Off /\ prim = Off
CluFrame ==
  UNCHANGED
    <<con, dash, box, xfer, chunk, est, tab, wal, aud, donut, grp, prim>>
BoxOnly ==
  con = Off /\ dash = Off /\ clu = Off /\ xfer = Off /\ chunk = Off /\
  est = Off /\ tab = Off /\ wal = Off /\ aud = Off /\ donut = Off /\
  grp = Off /\ prim = Off
BoxFrame ==
  UNCHANGED
    <<con, dash, clu, xfer, chunk, est, tab, wal, aud, donut, grp, prim>>
XferOnly ==
  con = Off /\ dash = Off /\ clu = Off /\ box = Off /\ chunk = Off /\
  est = Off /\ tab = Off /\ wal = Off /\ aud = Off /\ donut = Off /\
  grp = Off /\ prim = Off
XferFrame ==
  UNCHANGED
    <<con, dash, clu, box, chunk, est, tab, wal, aud, donut, grp, prim>>
ChunkOnly ==
  con = Off /\ dash = Off /\ clu = Off /\ box = Off /\ xfer = Off /\
  est = Off /\ tab = Off /\ wal = Off /\ aud = Off /\ donut = Off /\
  grp = Off /\ prim = Off
ChunkFrame ==
  UNCHANGED
    <<con, dash, clu, box, xfer, est, tab, wal, aud, donut, grp, prim>>
EstOnly ==
  con = Off /\ dash = Off /\ clu = Off /\ box = Off /\ xfer = Off /\
  chunk = Off /\ tab = Off /\ wal = Off /\ aud = Off /\ donut = Off /\
  grp = Off /\ prim = Off
EstFrame ==
  UNCHANGED
    <<con, dash, clu, box, xfer, chunk, tab, wal, aud, donut, grp, prim>>
TabOnly ==
  con = Off /\ dash = Off /\ clu = Off /\ box = Off /\ xfer = Off /\
  chunk = Off /\ est = Off /\ wal = Off /\ aud = Off /\ donut = Off /\
  grp = Off /\ prim = Off
TabFrame ==
  UNCHANGED
    <<con, dash, clu, box, xfer, chunk, est, wal, aud, donut, grp, prim>>
WalOnly ==
  con = Off /\ dash = Off /\ clu = Off /\ box = Off /\ xfer = Off /\
  chunk = Off /\ est = Off /\ tab = Off /\ aud = Off /\ donut = Off /\
  grp = Off /\ prim = Off
WalFrame ==
  UNCHANGED
    <<con, dash, clu, box, xfer, chunk, est, tab, aud, donut, grp, prim>>
AudOnly ==
  con = Off /\ dash = Off /\ clu = Off /\ box = Off /\ xfer = Off /\
  chunk = Off /\ est = Off /\ tab = Off /\ wal = Off /\ donut = Off /\
  grp = Off /\ prim = Off
AudFrame ==
  UNCHANGED
    <<con, dash, clu, box, xfer, chunk, est, tab, wal, donut, grp, prim>>
DonutOnly ==
  con = Off /\ dash = Off /\ clu = Off /\ box = Off /\ xfer = Off /\
  chunk = Off /\ est = Off /\ tab = Off /\ wal = Off /\ aud = Off /\
  grp = Off /\ prim = Off
DonutFrame ==
  UNCHANGED
    <<con, dash, clu, box, xfer, chunk, est, tab, wal, aud, grp, prim>>
GrpOnly ==
  con = Off /\ dash = Off /\ clu = Off /\ box = Off /\ xfer = Off /\
  chunk = Off /\ est = Off /\ tab = Off /\ wal = Off /\ aud = Off /\
  donut = Off /\ prim = Off
GrpFrame ==
  UNCHANGED
    <<con, dash, clu, box, xfer, chunk, est, tab, wal, aud, donut, prim>>
PrimOnly ==
  con = Off /\ dash = Off /\ clu = Off /\ box = Off /\ xfer = Off /\
  chunk = Off /\ est = Off /\ tab = Off /\ wal = Off /\ aud = Off /\
  donut = Off /\ grp = Off
PrimFrame ==
  UNCHANGED
    <<con, dash, clu, box, xfer, chunk, est, tab, wal, aud, donut, grp>>
\* End of the frames.

---------------------------------------------------------------------------
(* Bounds of the model *)

\* Largest number of lines of private_keys.txt.
MaxKeys == 3

---------------------------------------------------------------------------
(* JavaScript / client-library values *)

\* A nullable value: null is the empty sequence, v is <<v>>.
None == <<>>
Some(v) == <<v>>

\* JavaScript a || b on nullable bigints: null and 0n are falsy.
OrElse(a, b) == IF a # None /\ a[1] # 0 THEN a ELSE b

\* JavaScript a !== b: values of different types are never equal.
StrictNotEqual(a, b) == ~(a.type = b.type /\ a.val = b.val)

\* Number.toFixed(6) followed by ethers.parseEther, on an amount counted in
\* 10^-7 ETH: round half up to 6 decimals, the result again in 10^-7 ETH.
ToFixed6(x) == ((x + 5) \div 10) * 10

\* Error codes a submission or a confirmation wait can fail with.
TxErrors == {"TIMEOUT", "INSUFFICIENT_FUNDS"}


---------------------------------------------------------------------------
(* con: ETHConsolidator, src/index.js lines 1-403 *)

\* this.RPC_ENDPOINTS.length
NumEndpoints == 3
\* this.CHAIN_ID, a JavaScript number
CHAIN_ID == [type |-> "number", val |-> 6342]
\* this.MIN_BALANCE = 0.0015 ETH, in 10^-7 ETH
MIN_BALANCE == 15000
\* this.MAX_RETRIES
MAX_RETRIES == 3

\* The JavaScript type of Network.chainId; the client library that is
\* installed fixes it for the whole run.
ChainIdTypes == {"number", "bigint"}

\* What the liveness probe provider.getNetwork() of one endpoint answers: an
\* error, or a network whose chainId is a number or a bigint, depending on
\* the client library's Network type.
ProbeResults ==
  {[ok |-> FALSE, chainId |-> [type |-> "none", val |-> 0]]}
  \cup {[ok |-> TRUE, chainId |-> [type |-> t, val |-> v]] :
          t \in {"number", "bigint"}, v \in {6342, 1}}

\* The two input files as loadConfig finds them.  keyLines are the trimmed
\* non-empty lines of private_keys.txt: "ok" is a key ethers.Wallet accepts.
KeyLineSeqs == UNION {[1..n -> {"ok", "bad"}] : n \in 0..MaxKeys}
ConfigInputs ==
  [targetExists : BOOLEAN, targetValid : BOOLEAN, keysExists : BOOLEAN,
   keyLines : KeyLineSeqs]

\* loadConfig: "ok", or the configuration error it throws.
LoadConfig(cfg) ==
  IF ~cfg.targetExists THEN "target_address.txt not found"
  ELSE IF ~cfg.targetValid THEN "Invalid Ethereum address"
  ELSE IF ~cfg.keysExists THEN "private_keys.txt not found"
  ELSE IF Len(cfg.keyLines) = 0 THEN "No valid private keys found"
  ELSE IF \E k \in 1..Len(cfg.keyLines) : cfg.keyLines[k] = "bad"
       THEN "Invalid private key format"
  ELSE "ok"

\* Balances provider.getBalance answers, in 10^-7 ETH.
ConBalances == {0, 15000, 15004, 20000}
\* provider.getFeeData(): maxFeePerGas is null on a chain without EIP-1559.
ConFeeData == {[maxFeePerGas |-> None], [maxFeePerGas |-> Some(1)]}

\* wallet.address of the wallet built from a key, as far as the script can
\* tell it apart: it is this.targetAddress or another address.
ConAddresses == {"target", "other"}

BalClass(b) == IF b = 0 THEN "zero" ELSE IF b <= MIN_BALANCE THEN "low" ELSE "ok"

ConStart ==
  [pc |-> "connect", lib |-> "number", rpc |-> 1, firstLive |-> 0,
   provider |-> 0, cfg |-> None, keys |-> 0, i |-> 0,
   stats |-> [processed |-> 0, success |-> 0, failed |-> 0, skipped |-> 0],
   address |-> "none", calls |-> <<>>, bal |-> "none", balance |-> 0,
   value |-> 0,
   confirms |-> TRUE, broadcast |-> 0, log |-> <<>>, reported |-> FALSE, fatal |-> "",
   exit |-> None, exitCode |-> 0]

\* run's catch and finally: the fatal error is logged, process.exitCode is
\* set and the process stays alive for the key handler.
ConFatal(c, msg) ==
  [c EXCEPT !.pc = "idle", !.fatal = msg, !.exitCode = 1]

\* The endpoint answered the probe and is on the expected chain.
ProbeLive(r) == r.ok /\ r.chainId.val = CHAIN_ID.val

\* connect, one endpoint: adopt it or go on to the next; after the last one
\* throw, which run turns into a fatal error.  firstLive remembers the
\* first endpoint that answered the probe with the expected chain.
Con_Probe ==
  /\ con.pc = "connect"
  /\ \E r \in ProbeResults :
       /\ r.ok => r.chainId.type = con.lib
       /\ LET c == IF ProbeLive(r) /\ con.firstLive = 0
                   THEN [con EXCEPT !.firstLive = con.rpc]
                   ELSE con
          IN  con' = IF r.ok /\ ~StrictNotEqual(r.chainId, CHAIN_ID)
                     THEN [c EXCEPT !.provider = con.rpc,
                                    !.pc = "loadConfig"]
                     ELSE IF con.rpc < NumEndpoints
                     THEN [c EXCEPT !.rpc = @ + 1]
                     ELSE ConFatal(c, "Network connection failed")
  /\ ConFrame

Con_LoadConfig ==
  /\ con.pc = "loadConfig"
  /\ \E cfg \in ConfigInputs :
       con' = IF LoadConfig(cfg) = "ok"
              THEN [con EXCEPT !.cfg = Some(cfg), !.keys = Len(cfg.keyLines),
                               !.pc = "loop"]
              ELSE [ConFatal(con, "Configuration failed") EXCEPT
                      !.cfg = Some(cfg)]
  /\ ConFrame

\* A call of getBalanceWithRetry or sendTransactionWithRetry: att is the
\* outcome of each attempt made so far, "ok" or an error code.
StartCall(c, fn, retries) ==
  [c EXCEPT !.calls = Append(@, [fn |-> fn, retries |-> retries,
                                 att |-> <<>>, result |-> "pending"])]
CurCall(c) == c.calls[Len(c.calls)]
EndAttempt(c, outcome, result) ==
  [c EXCEPT !.calls[Len(c.calls)] =
              [@ EXCEPT !.att = Append(@, outcome), !.result = result]]

\* Mutant: the loop bound is off by one, a fourth attempt is made.
BalanceAttemptResult_OffByOne(call, outcome) ==
  IF outcome = "ok" THEN "returned"
  ELSE IF Len(call.att) < call.retries THEN "pending"
  ELSE "raised"

\* getBalanceWithRetry, after attempt number Len(call.att): return, throw
\* after the last attempt, or sleep and go round again.
BalanceAttemptResult(call, outcome) ==
  IF outcome = "ok" THEN "returned"
  ELSE IF Len(call.att) < call.retries - 1 THEN "pending"
  ELSE "raised"

\* Mutant: the non-retryable check is missing, every error is retried.
SendAttemptResult_RetryAll(call, outcome) ==
  IF outcome = "ok" THEN "returned"
  ELSE IF Len(call.att) < call.retries - 1 THEN "pending"
  ELSE "raised"

\* sendTransactionWithRetry, after attempt number Len(call.att).
SendAttemptResult(call, outcome) ==
  IF outcome = "ok" THEN "returned"
  ELSE IF Len(call.att) < call.retries - 1
       THEN (IF outcome = "INSUFFICIENT_FUNDS" THEN "raised" ELSE "pending")
  ELSE "raised"

\* The attempts of the current wallet's sendTransactionWithRetry call, <<>>
\* when it was not called.
SendAttempts(c) ==
  IF \E k \in 1..Len(c.calls) : c.calls[k].fn = "sendTransactionWithRetry"
  THEN c.calls[CHOOSE k \in 1..Len(c.calls) :
                 c.calls[k].fn = "sendTransactionWithRetry"].att
  ELSE <<>>

\* processWallet returns to run's loop: the delay before the next wallet,
\* or, after the last wallet, the final report and the idle wait.
ConReturn(c, outcome) ==
  LET d == [c EXCEPT !.log = Append(@, [outcome |-> outcome, bal |-> c.bal,
                                        send |-> SendAttempts(c)])]
  IN  IF d.i < d.keys - 1
      THEN [d EXCEPT !.pc = "delay"]
      ELSE [d EXCEPT !.pc = "idle", !.i = @ + 1, !.reported = TRUE]

\* Mutant: the error is not caught in processWallet and reaches run's catch.
ConCatch_Abort(c) == ConFatal(c, "Fatal Error")

\* processWallet's catch block up to its await: count the failure and ask
\* for the balance once more, for the table.
ConCatch(c) ==
  StartCall([c EXCEPT !.stats.failed = @ + 1, !.pc = "catchBalance"],
            "getBalanceWithRetry", 1)

\* run's loop head and processWallet up to the first balance query.
Con_ProcessWallet ==
  /\ con.pc = "loop"
  /\ \E a \in ConAddresses :
       con' = IF con.i < con.keys
              THEN StartCall([con EXCEPT !.stats.processed = @ + 1,
                                         !.address = a, !.broadcast = 0,
                                         !.calls = <<>>, !.bal = "none",
                                         !.balance = 0, !.value = 0,
                                         !.pc = "getBalance"],
                             "getBalanceWithRetry", MAX_RETRIES)
              ELSE [con EXCEPT !.pc = "idle", !.reported = TRUE]
  /\ ConFrame

\* Mutant: the low-balance branch returns without counting the skip.
ConAfterBalance_NoCount(c, b) ==
  IF b <= MIN_BALANCE
  THEN ConReturn([c EXCEPT !.balance = b, !.bal = BalClass(b)], "skipped")
  ELSE [c EXCEPT !.balance = b, !.bal = BalClass(b), !.pc = "getFeeData"]

\* Mutant: an empty wallet is counted as a failure, not as a skip.
ConAfterBalance_ZeroFails(c, b) ==
  IF b <= MIN_BALANCE
  THEN ConReturn([c EXCEPT !.stats.failed = @ + 1, !.balance = b,
                           !.bal = BalClass(b)], "failed")
  ELSE [c EXCEPT !.balance = b, !.bal = BalClass(b), !.pc = "getFeeData"]

\* processWallet after the balance is known: skip, or ask for the fee data.
ConAfterBalance(c, b) ==
  IF b <= MIN_BALANCE
  THEN ConReturn([c EXCEPT !.stats.skipped = @ + 1, !.balance = b,
                           !.bal = BalClass(b)], "skipped")
  ELSE [c EXCEPT !.balance = b, !.bal = BalClass(b), !.pc = "getFeeData"]

\* One attempt of getBalanceWithRetry inside processWallet's try block.
Con_GetBalance ==
  /\ con.pc = "getBalance"
  /\ \/ \E b \in ConBalances :
          con' = ConAfterBalance(
                   EndAttempt(con, "ok",
                              BalanceAttemptResult(CurCall(con), "ok")), b)
     \/ LET res == BalanceAttemptResult(CurCall(con), "err")
            c1 == EndAttempt(con, "err", res)
        IN  con' = IF res = "pending" THEN c1
                   ELSE ConCatch([c1 EXCEPT !.bal = "err"])
  /\ ConFrame

\* provider.getFeeData answers; the buffered fees are computed (null * 2n
\* throws) and sendTransactionWithRetry is entered.
Con_GetFeeData ==
  /\ con.pc = "getFeeData"
  /\ \/ \E fd \in ConFeeData :
          con' = IF fd.maxFeePerGas = None
                 THEN ConCatch(con)
                 ELSE StartCall(
                        [con EXCEPT !.value = ToFixed6(con.balance - MIN_BALANCE),
                                    !.pc = "send"],
                        "sendTransactionWithRetry", MAX_RETRIES)
     \/ con' = ConCatch(con)
  /\ ConFrame

\* A failed attempt of sendTransactionWithRetry.
ConSendFailed(c, code) ==
  LET res == SendAttemptResult(CurCall(c), code)
      c1  == EndAttempt(c, code, res)
  IN  IF res = "pending" THEN [c1 EXCEPT !.pc = "send"] ELSE ConCatch(c1)

\* wallet.sendTransaction answers.  broadcast counts the transactions of
\* the current wallet that the endpoint accepted.  When one is accepted the
\* chain decides whether it is ever mined (confirms) or stays pending for
\* good, as a transaction that was dropped or underpriced does.
Con_Send ==
  /\ con.pc = "send"
  /\ \/ \E m \in BOOLEAN :
          con' = [con EXCEPT !.pc = "wait", !.confirms = m,
                             !.broadcast = @ + 1]
     \/ \E code \in TxErrors : con' = ConSendFailed(con, code)
  /\ ConFrame

\* tx.wait() answers with the receipt or with an error once the
\* transaction is mined; it is called without a timeout, so for a
\* transaction that is never mined its promise stays pending.
Con_Wait ==
  /\ con.pc = "wait"
  /\ con.confirms
  /\ \/ con' = ConReturn(
                 [EndAttempt(con, "ok", SendAttemptResult(CurCall(con), "ok"))
                    EXCEPT !.stats.success = @ + 1], "success")
     \/ \E code \in TxErrors : con' = ConSendFailed(con, code)
  /\ ConFrame

\* The balance query of the catch block answers; its result only feeds the
\* table, and processWallet returns "failed".
Con_CatchBalance ==
  /\ con.pc = "catchBalance"
  /\ \E outcome \in {"ok", "err"} :
       con' = ConReturn(
                EndAttempt(con, outcome,
                           BalanceAttemptResult(CurCall(con), outcome)),
                "failed")
  /\ ConFrame

\* The TX_DELAY_MS pause between two wallets, then the loop's i++.
Con_Delay ==
  /\ con.pc = "delay"
  /\ con' = [con EXCEPT !.i = @ + 1, !.pc = "loop"]
  /\ ConFrame

\* The key handler of initUI: 'q' or Ctrl+C ends the process with code 0.
Con_KeyExit ==
  /\ con.pc \notin {"off", "exited"}
  /\ con' = [con EXCEPT !.pc = "exited", !.exit = Some(0)]
  /\ ConFrame

ConInit ==
  /\ \E lib \in ChainIdTypes : con = [ConStart EXCEPT !.lib = lib]
  /\ ConOnly

ConNext ==
  \/ Con_Probe
  \/ Con_LoadConfig
  \/ Con_ProcessWallet
  \/ Con_GetBalance
  \/ Con_GetFeeData
  \/ Con_Send
  \/ Con_Wait
  \/ Con_CatchBalance
  \/ Con_Delay
  \/ Con_KeyExit

SpecConsolidator == ConInit /\ [][ConNext]_vars

\* The steps the script takes by itself: every promise that the event loop
\* settles is resumed, every timer fires.  The key handler depends on the
\* user and is not among them.
ConRun ==
  \/ Con_Probe
  \/ Con_LoadConfig
  \/ Con_ProcessWallet
  \/ Con_GetBalance
  \/ Con_GetFeeData
  \/ Con_Send
  \/ Con_Wait
  \/ Con_CatchBalance
  \/ Con_Delay

SpecConsolidatorFair == ConInit /\ [][ConNext]_vars /\ WF_vars(ConRun)


---------------------------------------------------------------------------
(* dash: buffered-gas dashboard, src/unnamed/part_010 lines 190-488 *)

RECURSIVE Pow10(_)
Pow10(n) == IF n = 0 THEN 1 ELSE 10 * Pow10(n - 1)

RECURSIVE FracValue(_, _)
\* The value of the decimal digits frac, the first digit weighing 10^(d-1).
FracValue(frac, d) ==
  IF frac = <<>> THEN 0
  ELSE Head(frac) * Pow10(d - 1) + FracValue(Tail(frac), d - 1)

\* ethers.parseEther of a decimal string, the result counted in gwei (the
\* 9 leading decimals of the 18 that parseEther keeps).
ParseEther(dec) == dec.whole * Pow10(9) + FracValue(dec.frac, 9)

\* config.minBalance = '0.002'
DashMinBalance == [whole |-> 0, frac |-> <<0, 0, 2>>]
\* config.gasBuffer = 1.2
DashGasBuffer == [num |-> 12, den |-> 10]
\* const gasLimit = 21000n
DashGasLimit == 21000

\* Balances provider.getBalance answers, in gwei.
SweepBalances ==
  {0, 1999999, 2000000, 2016000, 2016001, 2520001, 3000000}
\* provider.getFeeData(): fee rates in gwei per gas unit, null when the chain
\* does not report the field.
SweepFeeData ==
  [maxFeePerGas : {None, Some(0), Some(1), Some(80), Some(100)},
   gasPrice : {None, Some(0), Some(80)}]

\* Mutant: the threshold itself is skipped too.
DashLowBalance_Inclusive(balance) == balance <= ParseEther(DashMinBalance)

\* balance < minBalanceWei
DashLowBalance(balance) == balance < ParseEther(DashMinBalance)

\* BigInt(Math.floor(config.gasBuffer * 100))
DashBufferPercent == (DashGasBuffer.num * 100) \div DashGasBuffer.den

\* (gasLimit * (feeData.maxFeePerGas || feeData.gasPrice)) * 120n / 100n;
\* the caller has checked that the fee rate is not null.
DashGasCost(fd) ==
  (DashGasLimit * OrElse(fd.maxFeePerGas, fd.gasPrice)[1] * DashBufferPercent)
    \div 100

\* Mutant: an amount of exactly zero is let through.
DashInsufficient_Strict(amount) == amount < 0

\* amount <= 0n
DashInsufficient(amount) == amount <= 0

\* What the two checks of processWallet decide for a balance and a fee quote.
DashDecide(balance, fd) ==
  IF DashLowBalance(balance) THEN [kind |-> "skip", amount |-> 0]
  ELSE IF DashInsufficient(balance - DashGasCost(fd))
       THEN [kind |-> "skip", amount |-> 0]
  ELSE [kind |-> "send", amount |-> balance - DashGasCost(fd)]

DashStart ==
  [pc |-> "loadFiles", keys |-> 0, i |-> 0,
   success |-> 0, failed |-> 0, skipped |-> 0,
   balance |-> None, feeData |-> None, decision |-> "none", amount |-> 0,
   screen |-> "none", cleanups |-> 0,
   isShuttingDown |-> FALSE, exit |-> None]

\* Mutant: no isShuttingDown flag and no process.exit in the finally block.
DashShutdown_Reentrant(d, code) ==
  [d EXCEPT !.cleanups = @ + 1,
            !.screen = IF @ = "up" THEN "destroyed" ELSE @,
            !.exit = Some(code)]

\* gracefulShutdown(code): once only; the cleanup stops the progress bar,
\* clears and destroys the screen (the dashboard with the counters is
\* gone), and the finally block ends the process.
DashShutdown(d, code) ==
  IF d.isShuttingDown THEN d
  ELSE [d EXCEPT !.isShuttingDown = TRUE, !.cleanups = @ + 1,
                 !.screen = IF @ = "up" THEN "destroyed" ELSE @,
                 !.pc = "exited", !.exit = Some(code)]

\* main: loadFiles keeps the lines of 64 or 66 characters; n of them.
Dash_LoadFiles ==
  /\ dash.pc = "loadFiles"
  /\ \E filesExist \in BOOLEAN, targetValid \in BOOLEAN, n \in 0..MaxKeys :
       dash' = IF filesExist /\ n > 0 /\ targetValid
               THEN [dash EXCEPT !.keys = n, !.pc = "ready"]
               ELSE DashShutdown(dash, 1)
  /\ DashFrame

\* main: provider.ready answers, then initUI (which needs a terminal).
Dash_Ready ==
  /\ dash.pc = "ready"
  /\ \E ready \in BOOLEAN, tty \in BOOLEAN :
       dash' = IF ~ready THEN DashShutdown(dash, 1)
               ELSE IF ~tty THEN [dash EXCEPT !.pc = "exited", !.exit = Some(1)]
               ELSE [dash EXCEPT !.pc = "loop", !.screen = "up"]
  /\ DashFrame

\* main's loop head and processWallet up to its balance query.  A key that
\* ethers.Wallet rejects throws outside processWallet's try block, into
\* main's catch.  After the last wallet the completion timer is armed.
Dash_ProcessWallet ==
  /\ dash.pc = "loop"
  /\ \/ /\ dash.i < dash.keys
        /\ \E keyOk \in BOOLEAN :
             dash' = IF keyOk
                     THEN [dash EXCEPT !.pc = "getBalance", !.balance = None,
                                       !.feeData = None, !.decision = "none",
                                       !.amount = 0]
                     ELSE DashShutdown(dash, 1)
     \/ /\ dash.i >= dash.keys
        /\ dash' = [dash EXCEPT !.pc = "finished"]
  /\ DashFrame

\* Mutant: the loop index is not advanced.
DashReturn_NoAdvance(d) == [d EXCEPT !.pc = "loop"]

\* processWallet leaves through its finally block; main updates the bar.
DashReturn(d) == [d EXCEPT !.i = @ + 1, !.pc = "loop"]

\* processWallet's catch block.
DashCatch(d) == DashReturn([d EXCEPT !.failed = @ + 1, !.decision = "failed"])

\* provider.getBalance answers.
Dash_GetBalance ==
  /\ dash.pc = "getBalance"
  /\ \/ \E b \in SweepBalances :
          dash' = IF DashLowBalance(b)
                  THEN DashReturn([dash EXCEPT !.balance = Some(b),
                                               !.skipped = @ + 1,
                                               !.decision = "skip"])
                  ELSE [dash EXCEPT !.balance = Some(b), !.pc = "getFeeData"]
     \/ dash' = DashCatch(dash)
  /\ DashFrame

\* provider.getFeeData answers; 21000n * null throws a TypeError.
Dash_GetFeeData ==
  /\ dash.pc = "getFeeData"
  /\ \/ \E fd \in SweepFeeData :
          LET d == [dash EXCEPT !.feeData = Some(fd)] IN
          dash' = IF OrElse(fd.maxFeePerGas, fd.gasPrice) = None
                  THEN DashCatch(d)
                  ELSE IF DashInsufficient(dash.balance[1] - DashGasCost(fd))
                  THEN DashReturn([d EXCEPT !.skipped = @ + 1,
                                            !.decision = "skip"])
                  ELSE [d EXCEPT !.decision = "send",
                                 !.amount = dash.balance[1] - DashGasCost(fd),
                                 !.pc = "send"]
     \/ dash' = DashCatch(dash)
  /\ DashFrame

\* wallet.sendTransaction({value: amount}) answers.
Dash_Send ==
  /\ dash.pc = "send"
  /\ \/ dash' = [dash EXCEPT !.pc = "wait"]
     \/ dash' = DashCatch(dash)
  /\ DashFrame

\* tx.wait answers: a receipt with status 1, a reverted receipt or an error.
Dash_Wait ==
  /\ dash.pc = "wait"
  /\ \/ dash' = DashReturn([dash EXCEPT !.success = @ + 1])
     \/ dash' = DashCatch(dash)
  /\ DashFrame

\* The completion timer armed after the loop fires: gracefulShutdown(0).
Dash_Timer ==
  /\ dash.pc = "finished"
  /\ dash' = DashShutdown(dash, 0)
  /\ DashFrame

\* 'q', Ctrl+C, escape, SIGINT or SIGTERM: gracefulShutdown(0).
Dash_Signal ==
  /\ dash.pc \notin {"off", "exited"}
  /\ dash' = DashShutdown(dash, 0)
  /\ DashFrame

DashInit ==
  /\ dash = DashStart
  /\ DashOnly

DashNext ==
  \/ Dash_LoadFiles
  \/ Dash_Ready
  \/ Dash_ProcessWallet
  \/ Dash_GetBalance
  \/ Dash_GetFeeData
  \/ Dash_Send
  \/ Dash_Wait
  \/ Dash_Timer
  \/ Dash_Signal

---------------------------------------------------------------------------
(* clu: a worker process of the prefix-cluster script, src/unnamed/part_013 *)

\* config.minBalance = '0.002'
CluMinBalance == [whole |-> 0, frac |-> <<0, 0, 2>>]
\* config.gasBuffer = 1.2
CluGasBuffer == [num |-> 12, den |-> 10]
\* const gasLimit = 21000n
CluGasLimit == 21000

\* balance < minBalanceWei
CluLowBalance(balance) == balance < ParseEther(CluMinBalance)

\* BigInt(Math.round(config.gasBuffer * 100))
CluBufferPercent ==
  (2 * CluGasBuffer.num * 100 + CluGasBuffer.den) \div (2 * CluGasBuffer.den)

\* (gasLimit * (feeData.maxFeePerGas || feeData.gasPrice)) * 120n / 100n
CluGasCost(fd) ==
  (CluGasLimit * OrElse(fd.maxFeePerGas, fd.gasPrice)[1] * CluBufferPercent)
    \div 100

\* Mutant: an amount of exactly zero is let through.
CluInsufficient_Strict(amount) == amount < 0

\* amount <= 0n
CluInsufficient(amount) == amount <= 0

\* The characters 2..5 of a key line, key.slice(2, 6); "1234" is a
\* canonical array index, which Object.values enumerates before the other
\* property names.
CluPrefixes == {"1234", "beef", "cafe"}
IsIndexKey(p) == p = "1234"
NotIndexKey(p) == ~IsIndexKey(p)
\* config.maxWorkers = Math.max(1, os.cpus().length - 1)
CluWorkerCounts == {1, 2}

RECURSIVE CluPropertyNames(_, _)
\* The property names of the object clusterWallets fills, in the order of
\* their creation.
CluPropertyNames(keys, acc) ==
  IF keys = <<>> THEN acc
  ELSE CluPropertyNames(Tail(keys),
         IF \E k \in 1..Len(acc) : acc[k] = Head(keys) THEN acc
         ELSE Append(acc, Head(keys)))

\* clusterWallets(keys): Object.values of the clusters, each cluster the
\* indexes (from 0) of its keys in the list, in list order.
ClusterWallets(keys) ==
  LET names == CluPropertyNames(keys, <<>>)
      order == SelectSeq(names, IsIndexKey) \o SelectSeq(names, NotIndexKey)
      idx   == [k \in 1..Len(keys) |-> k - 1]
  IN  [c \in 1..Len(order) |->
         SelectSeq(idx, LAMBDA k : keys[k + 1] = order[c])]

\* The number of workers the primary forks.
CluForked(keys, maxWorkers) ==
  IF maxWorkers <= Len(ClusterWallets(keys)) THEN maxWorkers
  ELSE Len(ClusterWallets(keys))

\* Mutant: the worker strides from its id, not from id - 1.
CluWorkerClusters_FromId(keys, maxWorkers, id) ==
  {i \in 0..(Len(ClusterWallets(keys)) - 1) :
     i >= id /\ (i - id) % maxWorkers = 0}

\* The worker loop: the cluster indexes i = id - 1, id - 1 + maxWorkers, ...
CluWorkerClusters(keys, maxWorkers, id) ==
  {i \in 0..(Len(ClusterWallets(keys)) - 1) :
     i >= id - 1 /\ (i - (id - 1)) % maxWorkers = 0}

\* The key indexes worker id passes to processWallet.
CluWorkerWallets(keys, maxWorkers, id) ==
  LET clusters == ClusterWallets(keys) IN
  UNION {{clusters[i + 1][j] : j \in 1..Len(clusters[i + 1])} :
         i \in CluWorkerClusters(keys, maxWorkers, id)}

CluStart ==
  [pc |-> "loadFiles", keys |-> <<>>, maxWorkers |-> 0, id |-> 0,
   todo |-> 0, i |-> 0,
   success |-> 0, failed |-> 0, skipped |-> 0,
   balance |-> None, feeData |-> None, decision |-> "none", amount |-> 0,
   sent |-> 0, isShuttingDown |-> FALSE, cleanups |-> 0, exit |-> None]

\* gracefulShutdown(code)
CluShutdown(c, code) ==
  IF c.isShuttingDown THEN c
  ELSE [c EXCEPT !.isShuttingDown = TRUE, !.cleanups = @ + 1,
                 !.pc = "exited", !.exit = Some(code)]

\* main of worker id: loadFiles keeps the lines of 64 or 66 characters;
\* todo is the number of loaded keys in the clusters of this worker.
Clu_LoadFiles ==
  /\ clu.pc = "loadFiles"
  /\ \E filesExist \in BOOLEAN, targetValid \in BOOLEAN, n \in 0..MaxKeys,
        w \in CluWorkerCounts :
     \E keys \in [1..n -> CluPrefixes] :
     \E id \in 1..(IF n = 0 THEN 1 ELSE CluForked(keys, w)) :
       clu' = IF filesExist /\ n > 0 /\ targetValid
              THEN [clu EXCEPT !.keys = keys, !.maxWorkers = w, !.id = id,
                               !.todo = Cardinality(
                                          CluWorkerWallets(keys, w, id)),
                               !.pc = "ready"]
              ELSE [clu EXCEPT !.pc = "exited", !.exit = Some(1)]
  /\ CluFrame

\* main: provider.ready answers (a rejection reaches main().catch), then
\* initUI, which needs a terminal.
Clu_Ready ==
  /\ clu.pc = "ready"
  /\ \E ready \in BOOLEAN, tty \in BOOLEAN :
       clu' = IF ~ready THEN CluShutdown(clu, 1)
              ELSE IF ~tty THEN [clu EXCEPT !.pc = "exited", !.exit = Some(1)]
              ELSE [clu EXCEPT !.pc = "loop"]
  /\ CluFrame

\* The worker's loop head and processWallet up to its balance query.  A key
\* that ethers.Wallet rejects throws into the loop's catch, which ends the
\* loop.
Clu_ProcessWallet ==
  /\ clu.pc = "loop"
  /\ \/ /\ clu.i < clu.todo
        /\ \E keyOk \in BOOLEAN :
             clu' = IF keyOk
                    THEN [clu EXCEPT !.pc = "getBalance", !.balance = None,
                                     !.feeData = None, !.decision = "none",
                                     !.amount = 0]
                    ELSE [clu EXCEPT !.pc = "idle"]
     \/ /\ clu.i >= clu.todo
        /\ clu' = [clu EXCEPT !.pc = "idle"]
  /\ CluFrame

\* processWallet returns; the worker counts it and tells the primary.
CluReturn(c) == [c EXCEPT !.i = @ + 1, !.sent = @ + 1, !.pc = "loop"]

\* processWallet's catch block.
CluCatch(c) == CluReturn([c EXCEPT !.failed = @ + 1, !.decision = "failed"])

\* provider.getBalance answers.
Clu_GetBalance ==
  /\ clu.pc = "getBalance"
  /\ \/ \E b \in SweepBalances :
          clu' = IF CluLowBalance(b)
                 THEN CluReturn([clu EXCEPT !.balance = Some(b),
                                            !.skipped = @ + 1,
                                            !.decision = "skip"])
                 ELSE [clu EXCEPT !.balance = Some(b), !.pc = "getFeeData"]
     \/ clu' = CluCatch(clu)
  /\ CluFrame

\* provider.getFeeData answers; 21000n * null throws a TypeError.
Clu_GetFeeData ==
  /\ clu.pc = "getFeeData"
  /\ \/ \E fd \in SweepFeeData :
          LET c == [clu EXCEPT !.feeData = Some(fd)] IN
          clu' = IF OrElse(fd.maxFeePerGas, fd.gasPrice) = None
                 THEN CluCatch(c)
                 ELSE IF CluInsufficient(clu.balance[1] - CluGasCost(fd))
                 THEN CluReturn([c EXCEPT !.skipped = @ + 1,
                                          !.decision = "skip"])
                 ELSE [c EXCEPT !.decision = "send",
                                !.amount = clu.balance[1] - CluGasCost(fd),
                                !.pc = "send"]
     \/ clu' = CluCatch(clu)
  /\ CluFrame

\* wallet.sendTransaction({value: amount}) answers.
Clu_Send ==
  /\ clu.pc = "send"
  /\ \/ clu' = [clu EXCEPT !.pc = "wait"]
     \/ clu' = CluCatch(clu)
  /\ CluFrame

\* tx.wait answers: a receipt with status 1, a reverted receipt or an error.
Clu_Wait ==
  /\ clu.pc = "wait"
  /\ \/ clu' = CluReturn([clu EXCEPT !.success = @ + 1])
     \/ clu' = CluCatch(clu)
  /\ CluFrame

\* 'q', Ctrl+C, escape, SIGINT or SIGTERM: gracefulShutdown(0).
Clu_Signal ==
  /\ clu.pc \notin {"off", "exited"}
  /\ clu' = CluShutdown(clu, 0)
  /\ CluFrame

CluInit ==
  /\ clu = CluStart
  /\ CluOnly

CluNext ==
  \/ Clu_LoadFiles
  \/ Clu_Ready
  \/ Clu_ProcessWallet
  \/ Clu_GetBalance
  \/ Clu_GetFeeData
  \/ Clu_Send
  \/ Clu_Wait
  \/ Clu_Signal

\* Either of the two buffered-gas scripts is run.
SweepInit == DashInit \/ CluInit
SweepNext == DashNext \/ CluNext
SpecSweep == SweepInit /\ [][SweepNext]_vars

---------------------------------------------------------------------------
(* box: summary-box dashboard, src/unnamed/part_004 lines 1-163 *)

\* RPC_ENDPOINTS.length
BoxEndpoints == 3
\* The literal 0.001 of sendETH, in 10^-7 ETH.
BoxReserve == 10000

\* Balances getBalance answers, in 10^-7 ETH.
FloatBalances == {0, 5000, 10000, 10004, 30000}

BoxStart ==
  [pc |-> "connect", rpc |-> 1, live |-> FALSE, keys |-> 0, i |-> 0,
   success |-> 0, failed |-> 0,
   balance |-> None, value |-> 0, submitted |-> 0, tableData |-> <<>>,
   mined |-> {}, exit |-> None]

\* An exception nobody catches (module top level, or the promise of run)
\* ends the process with code 1.
BoxCrash(b) == [b EXCEPT !.pc = "exited", !.exit = Some(1)]

\* The connection loop, one endpoint: provider is assigned before the probe,
\* so it is set even when every probe fails.  After the loop the two files
\* are read and the target address is checked; n keys are loaded.
BoxLoad(b, filesExist, targetValid, n) ==
  IF filesExist /\ targetValid
  THEN [b EXCEPT !.keys = n, !.pc = "loop"]
  ELSE BoxCrash(b)

Box_Connect ==
  /\ box.pc = "connect"
  /\ \E probeOk \in BOOLEAN, filesExist \in BOOLEAN, targetValid \in BOOLEAN,
        n \in 0..MaxKeys :
       box' = IF probeOk
              THEN BoxLoad([box EXCEPT !.live = TRUE], filesExist,
                           targetValid, n)
              ELSE IF box.rpc < BoxEndpoints
              THEN [box EXCEPT !.rpc = @ + 1]
              ELSE BoxLoad(box, filesExist, targetValid, n)
  /\ BoxFrame

\* run's loop head and sendETH up to its balance query; a key that
\* ethers.Wallet rejects throws outside sendETH's try block.
Box_SendETH ==
  /\ box.pc = "loop"
  /\ \/ /\ box.i < box.keys
        /\ \E keyOk \in BOOLEAN :
             box' = IF keyOk
                    THEN [box EXCEPT !.pc = "getBalance", !.balance = None,
                                     !.value = 0]
                    ELSE BoxCrash(box)
     \/ /\ box.i >= box.keys
        /\ box' = [box EXCEPT !.pc = "idle"]
  /\ BoxFrame

\* sendETH after its try/catch: the table row is in place, the charts are
\* refreshed and run goes to the next wallet.
BoxReturn(b, status) ==
  [b EXCEPT !.tableData = Append(@, status), !.i = @ + 1, !.pc = "loop"]

\* sendETH's catch block.
BoxCatch(b) == BoxReturn([b EXCEPT !.failed = @ + 1], "Failed")

\* The branch balance <= 0.001 of sendETH.
BoxLow(b) == BoxReturn([b EXCEPT !.failed = @ + 1], "Failed")

\* getBalance answers.
Box_GetBalance ==
  /\ box.pc = "getBalance"
  /\ \/ \E bal \in FloatBalances :
          LET b == [box EXCEPT !.balance = Some(bal)] IN
          box' = IF bal <= BoxReserve
                 THEN BoxLow(b)
                 ELSE [b EXCEPT !.value = ToFixed6(bal - BoxReserve),
                                !.pc = "getNonce"]
     \/ box' = BoxCatch(box)
  /\ BoxFrame

\* provider.getTransactionCount answers.
Box_GetNonce ==
  /\ box.pc = "getNonce"
  /\ \/ box' = [box EXCEPT !.pc = "send"]
     \/ box' = BoxCatch(box)
  /\ BoxFrame

\* wallet.sendTransaction answers; the wallet is a success as soon as the
\* transaction is handed over.  The script never asks for the receipt:
\* mined holds the wallets whose transaction the chain goes on to mine.
Box_Send ==
  /\ box.pc = "send"
  /\ \/ \E m \in BOOLEAN :
          box' = BoxReturn([box EXCEPT !.submitted = @ + 1,
                                       !.success = @ + 1,
                                       !.mined = IF m THEN @ \cup {box.i}
                                                 ELSE @], "Success")
     \/ box' = BoxCatch(box)
  /\ BoxFrame

\* 'q' or Ctrl+C: process.exit(0).
Box_KeyExit ==
  /\ box.pc \notin {"off", "exited", "connect"}
  /\ box' = [box EXCEPT !.pc = "exited", !.exit = Some(0)]
  /\ BoxFrame

BoxInit ==
  /\ box = BoxStart
  /\ BoxOnly

BoxNext ==
  \/ Box_Connect
  \/ Box_SendETH
  \/ Box_GetBalance
  \/ Box_GetNonce
  \/ Box_Send
  \/ Box_KeyExit

---------------------------------------------------------------------------
(* xfer: transferETH script, src/unnamed/part_012 *)

\* RPC_ENDPOINTS.length
XferEndpoints == 3
\* GAS_BUFFER = 0.001 ETH, in 10^-7 ETH
GAS_BUFFER == 10000

XferStart ==
  [pc |-> "load", rpc |-> 1, keys |-> 0, i |-> 0,
   success |-> 0, failed |-> 0,
   balance |-> None, value |-> 0, submitted |-> 0, exit |-> None]

\* Module top level: the target address and the key list are read and
\* checked before anything else.
Xfer_Load ==
  /\ xfer.pc = "load"
  /\ \E filesExist \in BOOLEAN, targetValid \in BOOLEAN, n \in 0..MaxKeys :
       xfer' = IF filesExist /\ targetValid /\ n > 0
               THEN [xfer EXCEPT !.keys = n, !.pc = "connect"]
               ELSE [xfer EXCEPT !.pc = "exited", !.exit = Some(1)]
  /\ XferFrame

\* connectProvider, one endpoint; when none answers it throws and the
\* rejection of the main function ends the process.
Xfer_Connect ==
  /\ xfer.pc = "connect"
  /\ \E probeOk \in BOOLEAN :
       xfer' = IF probeOk THEN [xfer EXCEPT !.pc = "loop"]
               ELSE IF xfer.rpc < XferEndpoints
               THEN [xfer EXCEPT !.rpc = @ + 1]
               ELSE [xfer EXCEPT !.pc = "exited", !.exit = Some(1)]
  /\ XferFrame

\* transferETH returned ok to the main loop: count it, then the one second
\* pause.
XferReturn(x, ok) ==
  IF ok THEN [x EXCEPT !.success = @ + 1, !.pc = "delay"]
  ELSE [x EXCEPT !.failed = @ + 1, !.pc = "delay"]

\* The main loop's head and transferETH up to its balance query; a key that
\* ethers.Wallet rejects throws inside the try block.
Xfer_TransferETH ==
  /\ xfer.pc = "loop"
  /\ \/ /\ xfer.i < xfer.keys
        /\ \E keyOk \in BOOLEAN :
             xfer' = IF keyOk
                     THEN [xfer EXCEPT !.pc = "getBalance", !.balance = None,
                                       !.value = 0]
                     ELSE XferReturn(xfer, FALSE)
     \/ /\ xfer.i >= xfer.keys
        /\ xfer' = [xfer EXCEPT !.pc = "exited", !.exit = Some(0)]
  /\ XferFrame

\* The two skip checks of transferETH: true when the wallet is not swept.
XferSkips(bal) == bal <= 0 \/ bal - GAS_BUFFER <= 0

\* getBalance answers.
Xfer_GetBalance ==
  /\ xfer.pc = "getBalance"
  /\ \/ \E bal \in FloatBalances :
          LET x == [xfer EXCEPT !.balance = Some(bal)] IN
          xfer' = IF XferSkips(bal)
                  THEN XferReturn(x, FALSE)
                  ELSE [x EXCEPT !.value = ToFixed6(bal - GAS_BUFFER),
                                 !.pc = "getNonce"]
     \/ xfer' = XferReturn(xfer, FALSE)
  /\ XferFrame

\* provider.getTransactionCount answers; the transaction is then signed.
Xfer_GetNonce ==
  /\ xfer.pc = "getNonce"
  /\ \/ xfer' = [xfer EXCEPT !.pc = "send"]
     \/ xfer' = XferReturn(xfer, FALSE)
  /\ XferFrame

\* provider.sendTransaction(signedTx) answers.
Xfer_Send ==
  /\ xfer.pc = "send"
  /\ \/ xfer' = [xfer EXCEPT !.submitted = @ + 1, !.pc = "wait"]
     \/ xfer' = XferReturn(xfer, FALSE)
  /\ XferFrame

\* provider.waitForTransaction answers within its 300 s, or times out.
Xfer_Wait ==
  /\ xfer.pc = "wait"
  /\ \/ xfer' = XferReturn(xfer, TRUE)
     \/ xfer' = XferReturn(xfer, FALSE)
  /\ XferFrame

\* The pause after each wallet, then the loop's i++.
Xfer_Delay ==
  /\ xfer.pc = "delay"
  /\ xfer' = [xfer EXCEPT !.i = @ + 1, !.pc = "loop"]
  /\ XferFrame

XferInit ==
  /\ xfer = XferStart
  /\ XferOnly

XferNext ==
  \/ Xfer_Load
  \/ Xfer_Connect
  \/ Xfer_TransferETH
  \/ Xfer_GetBalance
  \/ Xfer_GetNonce
  \/ Xfer_Send
  \/ Xfer_Wait
  \/ Xfer_Delay

\* Either of the two scripts without a skipped counter is run.
SkipInit == BoxInit \/ XferInit
SkipNext == BoxNext \/ XferNext
SpecSkip == SkipInit /\ [][SkipNext]_vars

---------------------------------------------------------------------------
(* chunk: chunked cluster script, src/unnamed/part_008 *)

\* config.maxWorkers = os.cpus().length on the machines considered.
WorkerCounts == {1, 2}

\* config.minBalance = '0.002'
ChunkMinBalance == [whole |-> 0, frac |-> <<0, 0, 2>>]

\* What the chain client answers while one wallet is processed: whether
\* ethers.Wallet accepts the key, then the answer of each request, None
\* standing for a rejected promise.  Balances are in gwei, fee rates in
\* gwei per gas unit.
ChunkResponse(keyOk, balance, feeData, gas, send, wait) ==
  [keyOk |-> keyOk, balance |-> balance, feeData |-> feeData, gas |-> gas,
   send |-> send, wait |-> wait]
ChunkResponses ==
  {ChunkResponse(FALSE, None, None, None, FALSE, FALSE),
   ChunkResponse(TRUE, None, None, None, FALSE, FALSE),
   ChunkResponse(TRUE, Some(0), None, None, FALSE, FALSE),
   ChunkResponse(TRUE, Some(2000000),
                 Some([maxFeePerGas |-> Some(100), gasPrice |-> None]),
                 Some(21000), TRUE, TRUE),
   ChunkResponse(TRUE, Some(3000000),
                 Some([maxFeePerGas |-> None, gasPrice |-> None]),
                 Some(21000), TRUE, TRUE),
   ChunkResponse(TRUE, Some(3000000),
                 Some([maxFeePerGas |-> None, gasPrice |-> Some(1)]),
                 Some(21000), TRUE, FALSE),
   ChunkResponse(TRUE, Some(3000000),
                 Some([maxFeePerGas |-> Some(1), gasPrice |-> Some(1)]),
                 Some(21000), TRUE, TRUE)}

\* Math.ceil(a / b)
Ceil(a, b) == (a + b - 1) \div b
Min(a, b) == IF a <= b THEN a ELSE b

\* Mutant: the chunks are counted from worker id 0.
ChunkStartIdx_FromZero(id, n, w) == id * Ceil(n, w)

\* workerProcess: the chunk [startIdx, endIdx) of worker id (from 1).
ChunkStartIdx(id, n, w) == (id - 1) * Ceil(n, w)
ChunkEndIdx(id, n, w) == Min(ChunkStartIdx(id, n, w) + Ceil(n, w), n)

ChunkWorkerStart ==
  [pc |-> "unborn", i |-> 0, endIdx |-> 0,
   success |-> 0, failed |-> 0, skipped |-> 0,
   balance |-> None, rate |-> None]

ChunkStart ==
  [pc |-> "load", filesExist |-> FALSE, targetValid |-> FALSE, keys |-> 0,
   resp |-> <<>>, maxWorkers |-> 0, workers |-> <<>>, msgs |-> {},
   success |-> 0, failed |-> 0, skipped |-> 0, completedWorkers |-> 0,
   printed |-> FALSE, queries |-> 0, transfers |-> 0, exit |-> None]

\* loadFiles: true when both files could be read; nothing else is checked.
ChunkLoadFiles(filesExist, targetValid, n) == filesExist

\* Primary: main up to the fork of the workers.  The files hold n keys and
\* a target address that is valid or not; the machine has w cores; resp is
\* what the chain client will answer for each wallet.
Chunk_Main ==
  /\ chunk.pc = "load"
  /\ \E filesExist \in BOOLEAN, targetValid \in BOOLEAN, n \in 0..MaxKeys,
        w \in WorkerCounts, ready \in BOOLEAN :
     \E resp \in [1..(IF filesExist /\ ready THEN n ELSE 0)
                    -> ChunkResponses] :
       chunk' =
         LET c == [chunk EXCEPT !.filesExist = filesExist,
                                !.targetValid = targetValid,
                                !.keys = IF filesExist THEN n ELSE 0,
                                !.resp = resp,
                                !.maxWorkers = w]
         IN  IF ~ChunkLoadFiles(filesExist, targetValid, n) \/ ~ready
             THEN [c EXCEPT !.pc = "exited", !.exit = Some(1)]
             ELSE [c EXCEPT !.pc = "collect",
                            !.workers = [id \in 1..w |->
                               [ChunkWorkerStart EXCEPT !.pc = "main"]]]
  /\ ChunkFrame

\* Worker id: main (it loads the same files, then waits for provider.ready)
\* and the head of workerProcess.
Chunk_WorkerMain(id) ==
  /\ chunk.pc = "collect"
  /\ chunk.workers[id].pc = "main"
  /\ \E ready \in BOOLEAN :
       chunk' = IF ready
                THEN [chunk EXCEPT !.workers[id] =
                        [@ EXCEPT !.pc = "loop",
                                  !.i = ChunkStartIdx(id, chunk.keys,
                                                      chunk.maxWorkers),
                                  !.endIdx = ChunkEndIdx(id, chunk.keys,
                                                         chunk.maxWorkers)]]
                ELSE [chunk EXCEPT !.workers[id].pc = "crashed"]
  /\ ChunkFrame

\* What the chain client answers for the wallet worker wk is processing.
ChunkResp(wk) == chunk.resp[wk.i + 1]

\* Worker id: the loop head of workerProcess and processWallet up to its
\* balance query.  A key ethers.Wallet rejects throws outside the try block
\* and ends the worker with code 1; after the last wallet the counters are
\* sent to the primary and the worker exits.
Chunk_ProcessWallet(id) ==
  /\ chunk.pc = "collect"
  /\ chunk.workers[id].pc = "loop"
  /\ \/ /\ chunk.workers[id].i < chunk.workers[id].endIdx
        /\ chunk' = IF ChunkResp(chunk.workers[id]).keyOk
                    THEN [chunk EXCEPT !.workers[id].pc = "getBalance",
                                       !.queries = @ + 1]
                    ELSE [chunk EXCEPT !.workers[id].pc = "crashed"]
     \/ /\ chunk.workers[id].i >= chunk.workers[id].endIdx
        /\ chunk' = [chunk EXCEPT !.workers[id].pc = "sent",
                                  !.msgs = @ \cup {id}]
  /\ ChunkFrame

\* processWallet returns to the loop of workerProcess.
ChunkReturn(wk) ==
  [wk EXCEPT !.i = @ + 1, !.pc = "loop", !.balance = None, !.rate = None]
ChunkCatch(wk) == ChunkReturn([wk EXCEPT !.failed = @ + 1])
ChunkSkip(wk) == ChunkReturn([wk EXCEPT !.skipped = @ + 1])

\* Worker id: provider.getBalance answers.
Chunk_GetBalance(id) ==
  /\ chunk.pc = "collect"
  /\ chunk.workers[id].pc = "getBalance"
  /\ LET wk == chunk.workers[id]
         b  == ChunkResp(wk).balance
     IN  chunk' = [chunk EXCEPT !.workers[id] =
                     IF b = None THEN ChunkCatch(wk)
                     ELSE IF b[1] < ParseEther(ChunkMinBalance)
                     THEN ChunkSkip(wk)
                     ELSE [wk EXCEPT !.balance = b, !.pc = "getFeeData"]]
  /\ ChunkFrame

\* Worker id: provider.getFeeData answers.
Chunk_GetFeeData(id) ==
  /\ chunk.pc = "collect"
  /\ chunk.workers[id].pc = "getFeeData"
  /\ LET wk == chunk.workers[id]
         fd == ChunkResp(wk).feeData
     IN  chunk' = [chunk EXCEPT !.workers[id] =
                     IF fd = None THEN ChunkCatch(wk)
                     ELSE [wk EXCEPT !.rate = OrElse(fd[1].maxFeePerGas,
                                                     fd[1].gasPrice),
                                     !.pc = "estimateGas"]]
  /\ ChunkFrame

\* Worker id: provider.estimateGas({to: targetAddress, from}) answers; a
\* target that is no address is rejected by the client.  gasEstimate * null
\* throws a TypeError.
Chunk_EstimateGas(id) ==
  /\ chunk.pc = "collect"
  /\ chunk.workers[id].pc = "estimateGas"
  /\ LET wk  == chunk.workers[id]
         gas == ChunkResp(wk).gas
     IN  chunk' = [chunk EXCEPT !.workers[id] =
                     IF ~chunk.targetValid \/ gas = None THEN ChunkCatch(wk)
                     ELSE IF wk.rate = None THEN ChunkCatch(wk)
                     ELSE IF wk.balance[1] - gas[1] * wk.rate[1] <= 0
                     THEN ChunkSkip(wk)
                     ELSE [wk EXCEPT !.pc = "send"]]
  /\ ChunkFrame

\* Worker id: wallet.sendTransaction answers.
Chunk_Send(id) ==
  /\ chunk.pc = "collect"
  /\ chunk.workers[id].pc = "send"
  /\ chunk' = IF ChunkResp(chunk.workers[id]).send
              THEN [chunk EXCEPT !.workers[id].pc = "wait",
                                 !.transfers = @ + 1]
              ELSE [chunk EXCEPT !.workers[id] = ChunkCatch(@)]
  /\ ChunkFrame

\* Worker id: tx.wait answers with a receipt of status 1, or else with a
\* reverted receipt or an error.
Chunk_Wait(id) ==
  /\ chunk.pc = "collect"
  /\ chunk.workers[id].pc = "wait"
  /\ chunk' = [chunk EXCEPT !.workers[id] =
                 IF ChunkResp(@).wait
                 THEN ChunkReturn([@ EXCEPT !.success = @ + 1])
                 ELSE ChunkCatch(@)]
  /\ ChunkFrame

\* Primary: the 'message' handler takes the counters of worker id; with the
\* last one it prints the summary and exits.
Chunk_Message(id) ==
  /\ chunk.pc = "collect"
  /\ id \in chunk.msgs
  /\ LET wk == chunk.workers[id]
         c  == [chunk EXCEPT !.msgs = @ \ {id},
                             !.success = @ + wk.success,
                             !.failed = @ + wk.failed,
                             !.skipped = @ + wk.skipped,
                             !.completedWorkers = @ + 1]
     IN  chunk' = IF c.completedWorkers = c.maxWorkers
                  THEN [c EXCEPT !.printed = TRUE, !.pc = "exited",
                                 !.exit = Some(0)]
                  ELSE c
  /\ ChunkFrame

ChunkInit ==
  /\ chunk = ChunkStart
  /\ ChunkOnly

\* The ids of the forked workers.
ChunkIds == IF chunk.pc = "collect" THEN 1..chunk.maxWorkers ELSE {}

ChunkNext ==
  \/ Chunk_Main
  \/ \E id \in ChunkIds : Chunk_WorkerMain(id)
  \/ \E id \in ChunkIds : Chunk_ProcessWallet(id)
  \/ \E id \in ChunkIds : Chunk_GetBalance(id)
  \/ \E id \in ChunkIds : Chunk_GetFeeData(id)
  \/ \E id \in ChunkIds : Chunk_EstimateGas(id)
  \/ \E id \in ChunkIds : Chunk_Send(id)
  \/ \E id \in ChunkIds : Chunk_Wait(id)
  \/ \E id \in ChunkIds : Chunk_Message(id)

\* The chunked cluster script alone.
SpecChunk == ChunkInit /\ [][ChunkNext]_vars

\* The same under fair scheduling: the event loops of the primary and of
\* the workers run whatever is ready, and the chain client answers every
\* request.
SpecChunkFair == ChunkInit /\ [][ChunkNext]_vars /\ WF_vars(ChunkNext)

\* Either of the two cluster scripts is run.
PartitionInit == CluInit \/ ChunkInit
PartitionNext == CluNext \/ ChunkNext
SpecPartition == PartitionInit /\ [][PartitionNext]_vars

\* The consolidator or the chunked cluster script is run.
ConfigInit == ConInit \/ ChunkInit
ConfigNext == ConNext \/ ChunkNext
SpecConfig == ConfigInit /\ [][ConfigNext]_vars

---------------------------------------------------------------------------
(* est: estimate-gas dashboard, src/unnamed/part_002 *)

\* config.minBalance = '0.002'
EstMinBalance == [whole |-> 0, frac |-> <<0, 0, 2>>]
\* config.gasBuffer = 1.2
EstGasBuffer == [num |-> 12, den |-> 10]
\* The literal 21000n of the value handed to estimateGas.
EstTransferGas == 21000

\* Balances provider.getBalance answers, in gwei.
EstBalances == {0, 2000000, 2100000, 2520120, 2520121, 3000000}
\* provider.getFeeData(), in gwei per gas unit.
EstFeeData ==
  [maxFeePerGas : {None, Some(0), Some(1), Some(100)},
   gasPrice : {None, Some(1)}]
\* Gas units provider.estimateGas answers.
EstGasEstimates == {21000, 21001}

\* BigInt(Math.floor(config.gasBuffer * 100))
EstBufferPercent == (EstGasBuffer.num * 100) \div EstGasBuffer.den

\* gasEstimate * (feeData.maxFeePerGas || feeData.gasPrice) * 120n / 100n;
\* the caller has checked that the fee rate is not null.
EstGasCost(gas, fd) ==
  (gas * OrElse(fd.maxFeePerGas, fd.gasPrice)[1] * EstBufferPercent) \div 100

EstStart ==
  [pc |-> "loadFiles", keys |-> 0, i |-> 0,
   success |-> 0, failed |-> 0, skipped |-> 0,
   balance |-> None, feeData |-> None, gas |-> 0, gasCost |-> None,
   amount |-> 0,
   rows |-> <<>>, fatal |-> "", completed |-> FALSE, exit |-> None]

\* gracefulShutdown: the finally block always calls process.exit(0).
EstShutdown(e) == [e EXCEPT !.pc = "exited", !.exit = Some(0)]

\* main: loadFiles answers false for a missing file, an empty key list or
\* an invalid target; main then returns and the process ends by itself,
\* process.exitCode never having been set.
Est_LoadFiles ==
  /\ est.pc = "loadFiles"
  /\ \E filesExist \in BOOLEAN, targetValid \in BOOLEAN, n \in 0..MaxKeys :
       est' = IF filesExist /\ n > 0 /\ targetValid
              THEN [est EXCEPT !.keys = n, !.pc = "ready"]
              ELSE [est EXCEPT !.fatal = "loadFiles", !.pc = "exited",
                               !.exit = Some(0)]
  /\ EstFrame

\* main: provider.ready answers; a rejection is an unhandled rejection,
\* whose handler calls gracefulShutdown.
Est_Ready ==
  /\ est.pc = "ready"
  /\ \E ready \in BOOLEAN :
       est' = IF ready THEN [est EXCEPT !.pc = "loop"]
              ELSE EstShutdown([est EXCEPT !.fatal = "connect"])
  /\ EstFrame

\* main's loop head and processWallet up to its balance query.  A key that
\* ethers.Wallet rejects throws outside the try block: main rejects and
\* the unhandledRejection handler shuts down.  After the last wallet the
\* completion timer is armed.
Est_ProcessWallet ==
  /\ est.pc = "loop"
  /\ \/ /\ est.i < est.keys
        /\ \E keyOk \in BOOLEAN :
             est' = IF keyOk
                    THEN [est EXCEPT !.pc = "getBalance", !.balance = None,
                                     !.feeData = None, !.gas = 0,
                                     !.gasCost = None,
                                     !.amount = 0]
                    ELSE EstShutdown([est EXCEPT !.fatal = "key"])
     \/ /\ est.i >= est.keys
        /\ est' = [est EXCEPT !.pc = "finished", !.completed = TRUE]
  /\ EstFrame

\* processWallet returns through its finally block with one more table row.
EstReturn(e, status) ==
  [e EXCEPT !.rows = Append(@, status), !.i = @ + 1, !.pc = "loop"]
EstCatch(e) == EstReturn([e EXCEPT !.failed = @ + 1], "Failed")
EstSkip(e) == EstReturn([e EXCEPT !.skipped = @ + 1], "Skipped")

\* provider.getBalance answers.
Est_GetBalance ==
  /\ est.pc = "getBalance"
  /\ \/ \E b \in EstBalances :
          est' = IF b < ParseEther(EstMinBalance)
                 THEN EstSkip([est EXCEPT !.balance = Some(b)])
                 ELSE [est EXCEPT !.balance = Some(b), !.pc = "getFeeData"]
     \/ est' = EstCatch(est)
  /\ EstFrame

\* provider.getFeeData answers; the value for estimateGas is computed from
\* feeData.maxFeePerGas alone: null * 21000n throws a TypeError, and a
\* negative value is rejected by the client before any request.
Est_GetFeeData ==
  /\ est.pc = "getFeeData"
  /\ \/ \E fd \in EstFeeData :
          LET e == [est EXCEPT !.feeData = Some(fd)] IN
          est' = IF fd.maxFeePerGas = None THEN EstCatch(e)
                 ELSE IF est.balance[1] - fd.maxFeePerGas[1] * EstTransferGas < 0
                 THEN EstCatch(e)
                 ELSE [e EXCEPT !.pc = "estimateGas"]
     \/ est' = EstCatch(est)
  /\ EstFrame

\* provider.estimateGas answers; gasEstimate * null throws a TypeError.
Est_EstimateGas ==
  /\ est.pc = "estimateGas"
  /\ \/ \E gas \in EstGasEstimates :
          LET fd == est.feeData[1] IN
          est' = IF OrElse(fd.maxFeePerGas, fd.gasPrice) = None
                 THEN EstCatch(est)
                 ELSE LET cost == EstGasCost(gas, fd)
                          e == [est EXCEPT !.gas = gas,
                                           !.gasCost = Some(cost)]
                      IN  IF est.balance[1] - cost <= 0
                          THEN EstSkip(e)
                          ELSE [e EXCEPT !.amount = est.balance[1] - cost,
                                         !.pc = "send"]
     \/ est' = EstCatch(est)
  /\ EstFrame

\* wallet.sendTransaction answers.
Est_Send ==
  /\ est.pc = "send"
  /\ \/ est' = [est EXCEPT !.pc = "wait"]
     \/ est' = EstCatch(est)
  /\ EstFrame

\* tx.wait answers: a receipt with status 1, a reverted receipt (failed++
\* in the else branch) or an error (failed++ in the catch block).
Est_Wait ==
  /\ est.pc = "wait"
  /\ \/ est' = EstReturn([est EXCEPT !.success = @ + 1], "Success")
     \/ est' = EstCatch(est)
  /\ EstFrame

\* The completion timer armed after the loop fires: gracefulShutdown.
Est_Timer ==
  /\ est.pc = "finished"
  /\ est' = EstShutdown(est)
  /\ EstFrame

\* 'q', Ctrl+C or escape, once initUI has installed the handler.
Est_Key ==
  /\ est.pc \notin {"off", "exited", "loadFiles", "ready"}
  /\ est' = EstShutdown(est)
  /\ EstFrame

EstInit ==
  /\ est = EstStart
  /\ EstOnly

EstNext ==
  \/ Est_LoadFiles
  \/ Est_Ready
  \/ Est_ProcessWallet
  \/ Est_GetBalance
  \/ Est_GetFeeData
  \/ Est_EstimateGas
  \/ Est_Send
  \/ Est_Wait
  \/ Est_Timer
  \/ Est_Key

\* The consolidator or the estimate-gas dashboard is run.
ExitInit == ConInit \/ EstInit
ExitNext == ConNext \/ EstNext
SpecExit == ExitInit /\ [][ExitNext]_vars

---------------------------------------------------------------------------
(* tab: ETHConsolidator with the wallet table, src/unnamed/part_003 *)

\* this.RPC_ENDPOINTS.length
TabEndpoints == 1
\* BigInt(21000)
TabGasLimit == 21000
\* ethers.parseUnits("1", "gwei"), the fallback gas price, in gwei
TabDefaultGasPrice == 1

\* Balances getBalance answers, in 10^-7 ETH.
TabBalances == {0, 210, 214, 215, 1215, 30000}
\* feeData.gasPrice in gwei per gas unit, null when the chain reports none.
TabFeeData == {[gasPrice |-> None], [gasPrice |-> Some(0)],
               [gasPrice |-> Some(1)], [gasPrice |-> Some(10)]}

\* parseFloat(ethers.formatEther(gasPrice * gasLimit)): gwei to 10^-7 ETH.
TabGasCostEth(fd) ==
  (OrElse(fd.gasPrice, Some(TabDefaultGasPrice))[1] * TabGasLimit) \div 100

TabStart ==
  [pc |-> "connect", rpc |-> 1, firstLive |-> 0, provider |-> 0,
   keys |-> 0, i |-> 0,
   successCount |-> 0, failCount |-> 0, skippedCount |-> 0,
   balance |-> None, gasCost |-> 0, value |-> 0, tableData |-> <<>>,
   fatal |-> "", complete |-> FALSE, exit |-> None]

\* run's catch and finally: the fatal error is logged and the status box
\* refreshed; the process stays alive for the key handler.
TabFatal(t, msg) == [t EXCEPT !.pc = "idle", !.fatal = msg]

\* connect, one endpoint: provider.getBlockNumber() answers or fails.
Tab_Probe ==
  /\ tab.pc = "connect"
  /\ \E probeOk \in BOOLEAN :
       tab' = IF probeOk
              THEN [tab EXCEPT !.firstLive = tab.rpc, !.provider = tab.rpc,
                               !.pc = "loadConfig"]
              ELSE IF tab.rpc < TabEndpoints
              THEN [tab EXCEPT !.rpc = @ + 1]
              ELSE TabFatal(tab, "Couldn't connect to any RPC")
  /\ TabFrame

\* loadConfig: the target must be an address and the key list non-empty.
Tab_LoadConfig ==
  /\ tab.pc = "loadConfig"
  /\ \E filesExist \in BOOLEAN, targetValid \in BOOLEAN, n \in 0..MaxKeys :
       tab' = IF filesExist /\ targetValid /\ n > 0
              THEN [tab EXCEPT !.keys = n, !.pc = "loop"]
              ELSE TabFatal(tab, "Config error")
  /\ TabFrame

\* run's loop head and processWallet up to its balance query.  A key that
\* ethers.Wallet rejects throws outside processWallet's try block, into
\* run's catch.
Tab_ProcessWallet ==
  /\ tab.pc = "loop"
  /\ \/ /\ tab.i < tab.keys
        /\ \E keyOk \in BOOLEAN :
             tab' = IF keyOk
                    THEN [tab EXCEPT !.pc = "getBalance", !.balance = None,
                                     !.gasCost = 0, !.value = 0]
                    ELSE TabFatal(tab, "invalid private key")
     \/ /\ tab.i >= tab.keys
        /\ tab' = [tab EXCEPT !.pc = "idle", !.complete = TRUE]
  /\ TabFrame

\* processWallet returns with one more table row; run pauses between two
\* wallets.
TabReturn(t, status) ==
  [t EXCEPT !.tableData = Append(@, status),
            !.pc = IF t.i < t.keys - 1 THEN "delay" ELSE "loop",
            !.i = IF t.i < t.keys - 1 THEN @ ELSE @ + 1]

\* getBalance answers; an error goes to the catch block.
Tab_GetBalance ==
  /\ tab.pc = "getBalance"
  /\ \/ \E bal \in TabBalances :
          tab' = [tab EXCEPT !.balance = Some(bal), !.pc = "getFeeData"]
     \/ tab' = [tab EXCEPT !.pc = "catch"]
  /\ TabFrame

\* provider.getFeeData answers: sendable = balance - gasCostEth.
Tab_GetFeeData ==
  /\ tab.pc = "getFeeData"
  /\ \/ \E fd \in TabFeeData :
          LET cost == TabGasCostEth(fd)
              sendable == tab.balance[1] - cost
              t == [tab EXCEPT !.gasCost = cost]
          IN  tab' = IF sendable <= 0
                     THEN TabReturn([t EXCEPT !.skippedCount = @ + 1],
                                    "Skipped")
                     ELSE [t EXCEPT !.value = ToFixed6(sendable),
                                    !.pc = "send"]
     \/ tab' = [tab EXCEPT !.pc = "catch"]
  /\ TabFrame

\* wallet.sendTransaction answers.
Tab_Send ==
  /\ tab.pc = "send"
  /\ \/ tab' = [tab EXCEPT !.pc = "wait"]
     \/ tab' = [tab EXCEPT !.pc = "catch"]
  /\ TabFrame

\* tx.wait answers.
Tab_Wait ==
  /\ tab.pc = "wait"
  /\ \/ tab' = TabReturn([tab EXCEPT !.successCount = @ + 1], "Success")
     \/ tab' = [tab EXCEPT !.pc = "catch"]
  /\ TabFrame

\* The catch block: the balance is queried once more (0 on error), then
\* the wallet is counted and shown as failed.
Tab_Catch ==
  /\ tab.pc = "catch"
  /\ tab' = TabReturn([tab EXCEPT !.failCount = @ + 1], "Failed")
  /\ TabFrame

\* The pause between two wallets, then the loop's i++.
Tab_Delay ==
  /\ tab.pc = "delay"
  /\ tab' = [tab EXCEPT !.i = @ + 1, !.pc = "loop"]
  /\ TabFrame

\* 'q' or Ctrl+C: process.exit(0).
Tab_KeyExit ==
  /\ tab.pc \notin {"off", "exited"}
  /\ tab' = [tab EXCEPT !.pc = "exited", !.exit = Some(0)]
  /\ TabFrame

TabInit ==
  /\ tab = TabStart
  /\ TabOnly

TabNext ==
  \/ Tab_Probe
  \/ Tab_LoadConfig
  \/ Tab_ProcessWallet
  \/ Tab_GetBalance
  \/ Tab_GetFeeData
  \/ Tab_Send
  \/ Tab_Wait
  \/ Tab_Catch
  \/ Tab_Delay
  \/ Tab_KeyExit

\* Either of the two consolidators with an endpoint list is run.
ConnectInit == ConInit \/ TabInit
ConnectNext == ConNext \/ TabNext
SpecConnect == ConnectInit /\ [][ConnectNext]_vars

---------------------------------------------------------------------------
(* wal: wallet-status table script, src/unnamed/part_006 lines 1-230 *)

\* this.RPC_ENDPOINTS.length
WalEndpoints == 3
\* this.MIN_BALANCE = 0.0015 ETH, in 10^-7 ETH
WalMinBalance == 15000
\* Balances getBalance answers, in 10^-7 ETH.
WalBalances == {0, 15000, 20000}

\* rows are the rows of walletTable, confirmed the wallets whose tx.wait()
\* returned a receipt.
WalStart ==
  [pc |-> "connect", rpc |-> 1, keys |-> 0, i |-> 0, balance |-> 0,
   rows |-> <<>>, confirmed |-> {}, fatal |-> FALSE, complete |-> FALSE,
   exit |-> None]

\* run's catch and finally: the fatal error is logged and the process stays
\* alive for the key handler.
WalFatal(w) == [w EXCEPT !.pc = "idle", !.fatal = TRUE]

\* updateTable: one more row for the wallet being processed.
WalUpdateTable(w, status) ==
  [w EXCEPT !.rows = Append(@, [wallet |-> w.i, status |-> status])]

\* connect, one endpoint: getBlockNumber answers or fails.
Wal_Connect ==
  /\ wal.pc = "connect"
  /\ \E ok \in BOOLEAN :
       wal' = IF ok THEN [wal EXCEPT !.pc = "loadConfig"]
              ELSE IF wal.rpc < WalEndpoints THEN [wal EXCEPT !.rpc = @ + 1]
              ELSE WalFatal(wal)
  /\ WalFrame

\* loadConfig: the files are read, the address is checked and the non-empty
\* key lines are kept; the keys themselves are not checked.
Wal_LoadConfig ==
  /\ wal.pc = "loadConfig"
  /\ \E filesExist \in BOOLEAN, targetValid \in BOOLEAN, n \in 0..MaxKeys :
       wal' = IF filesExist /\ targetValid /\ n > 0
              THEN [wal EXCEPT !.keys = n, !.pc = "loop"]
              ELSE WalFatal(wal)
  /\ WalFrame

\* run's loop head and processWallet up to its balance query; a key that
\* ethers.Wallet rejects throws outside the try block, into run's catch.
Wal_ProcessWallet ==
  /\ wal.pc = "loop"
  /\ \E keyOk \in BOOLEAN :
       wal' = IF wal.i >= wal.keys
              THEN [wal EXCEPT !.pc = "idle", !.complete = TRUE]
              ELSE IF keyOk
              THEN [wal EXCEPT !.pc = "getBalance", !.balance = 0]
              ELSE WalFatal(wal)
  /\ WalFrame

\* processWallet returns: the delay before the next wallet, or after the
\* last one the end of run.
WalReturn(w) ==
  IF w.i < w.keys - 1
  THEN [w EXCEPT !.pc = "delay"]
  ELSE [w EXCEPT !.pc = "idle", !.i = @ + 1, !.complete = TRUE]

\* getBalance answers: skip, go on to the submission, or the catch block.
Wal_GetBalance ==
  /\ wal.pc = "getBalance"
  /\ \/ \E b \in WalBalances :
          wal' = IF b <= WalMinBalance
                 THEN WalReturn(WalUpdateTable([wal EXCEPT !.balance = b],
                                               "Skipped"))
                 ELSE [wal EXCEPT !.balance = b, !.pc = "send"]
     \/ wal' = [wal EXCEPT !.pc = "catchBalance"]
  /\ WalFrame

\* wallet.sendTransaction returned: the Success row is written, then the
\* confirmation is awaited.
WalSent(w) == [WalUpdateTable(w, "Success") EXCEPT !.pc = "wait"]

\* wallet.sendTransaction answers.
Wal_Send ==
  /\ wal.pc = "send"
  /\ \/ wal' = WalSent(wal)
     \/ wal' = [wal EXCEPT !.pc = "catchBalance"]
  /\ WalFrame

\* tx.wait() answers: the receipt, or an error (a reverted or replaced
\* transaction).
Wal_Wait ==
  /\ wal.pc = "wait"
  /\ \/ wal' = WalReturn([wal EXCEPT !.confirmed = @ \cup {wal.i}])
     \/ wal' = [wal EXCEPT !.pc = "catchBalance"]
  /\ WalFrame

\* The catch block: the balance is asked once more (0 when that fails), the
\* Failed row is written and processWallet returns.
Wal_CatchBalance ==
  /\ wal.pc = "catchBalance"
  /\ \E b \in WalBalances :
       wal' = WalReturn(WalUpdateTable([wal EXCEPT !.balance = b], "Failed"))
  /\ WalFrame

\* The TX_DELAY_MS pause between two wallets, then the loop's i++.
Wal_Delay ==
  /\ wal.pc = "delay"
  /\ wal' = [wal EXCEPT !.i = @ + 1, !.pc = "loop"]
  /\ WalFrame

\* 'q' or Ctrl+C: process.exit(0).
Wal_KeyExit ==
  /\ wal.pc \notin {"off", "exited"}
  /\ wal' = [wal EXCEPT !.pc = "exited", !.exit = Some(0)]
  /\ WalFrame

WalInit ==
  /\ wal = WalStart
  /\ WalOnly

WalNext ==
  \/ Wal_Connect
  \/ Wal_LoadConfig
  \/ Wal_ProcessWallet
  \/ Wal_GetBalance
  \/ Wal_Send
  \/ Wal_Wait
  \/ Wal_CatchBalance
  \/ Wal_Delay
  \/ Wal_KeyExit

\* The two scripts that write a Success row: wal and box.
RecordInit == WalInit \/ BoxInit
RecordNext == WalNext \/ BoxNext
SpecRecord == RecordInit /\ [][RecordNext]_vars

---------------------------------------------------------------------------
(* aud: audit-log script, src/unnamed/part_001 lines 1-225.  Line 32 lacks
   a closing parenthesis; the model reads it as the test it was meant to
   be and describes the script that runs once that line is repaired. *)

\* CONFIG.minBalance = '0.002' ETH, in gwei
AudMinBalance == 2000000
\* Balances provider.getBalance answers, in gwei.
AudBalances == {0, 1999999, 2000000, 3000000}
\* provider.getFeeData(): either fee field may be null.
AudFeeData ==
  [maxFeePerGas : {None, Some(1)}, maxPriorityFeePerGas : {None, Some(1)}]

\* The JavaScript operator * : two BigInts multiply, a BigInt and a Number
\* throw "Cannot mix BigInt and other types".
AudTimes(a, b) ==
  IF a.type = "TypeError" \/ b.type = "TypeError" \/ a.type # b.type
  THEN [type |-> "TypeError", val |-> 0]
  ELSE [type |-> a.type, val |-> a.val * b.val]
AudBigInt(v) == [type |-> "bigint", val |-> v]
\* CONFIG.gasBuffer = 1.2 is a Number; its value is kept in tenths.
AudGasBuffer == [type |-> "number", val |-> 12]

\* gasEstimate * feeData.maxFeePerGas * CONFIG.gasBuffer * 100n of line 98,
\* evaluated from left to right.
AudGasCost(fd) ==
  AudTimes(AudTimes(AudTimes(AudBigInt(21000), AudBigInt(fd.maxFeePerGas[1])),
                    AudGasBuffer),
           AudBigInt(100))

\* logFile holds the records of transactions.log in file order, thrown the
\* calls of processWallet that ended with an exception.
AudStart ==
  [pc |-> "initialize", keys |-> 0, i |-> 0,
   results |-> [success |-> 0, failed |-> 0, skipped |-> 0],
   balance |-> 0, logFile |-> <<>>, thrown |-> 0, reported |-> FALSE,
   exit |-> None]

\* logTransaction: fs.appendFileSync adds one line to the log file.
LogTransaction(a, status) ==
  [a EXCEPT !.logFile = Append(@, [wallet |-> a.i, status |-> status])]

\* main's finally after a call of processWallet: the loop's i++.
AudReturn(a) == [a EXCEPT !.i = @ + 1, !.pc = "loop"]

\* processWallet's catch block.
AudCatch(a) ==
  AudReturn(LogTransaction([a EXCEPT !.results.failed = @ + 1], "Failed"))

\* initialize: both files exist, n lines have the form of a key, the target
\* is an address; otherwise main ends the process with code 1.
Aud_Initialize ==
  /\ aud.pc = "initialize"
  /\ \E filesExist \in BOOLEAN, targetValid \in BOOLEAN, n \in 0..MaxKeys :
       aud' = IF filesExist /\ targetValid /\ n > 0
              THEN [aud EXCEPT !.keys = n, !.pc = "ready"]
              ELSE [aud EXCEPT !.pc = "exited", !.exit = Some(1)]
  /\ AudFrame

\* await provider.ready
Aud_Ready ==
  /\ aud.pc = "ready"
  /\ \E ok \in BOOLEAN :
       aud' = IF ok THEN [aud EXCEPT !.pc = "loop"]
              ELSE [aud EXCEPT !.pc = "exited", !.exit = Some(1)]
  /\ AudFrame

\* main's loop head and processWallet up to its balance query.  A key of
\* the right form that ethers.Wallet rejects (zero, or not below the curve
\* order) throws before the try block; main's catch logs the error to the
\* console and the loop goes on.  After the last wallet the report is
\* printed and the process ends.
Aud_ProcessWallet ==
  /\ aud.pc = "loop"
  /\ \E keyOk \in BOOLEAN :
       aud' = IF aud.i >= aud.keys
              THEN [aud EXCEPT !.pc = "exited", !.reported = TRUE,
                               !.exit = Some(0)]
              ELSE IF keyOk
              THEN [aud EXCEPT !.pc = "getBalance", !.balance = 0]
              ELSE AudReturn([aud EXCEPT !.thrown = @ + 1])
  /\ AudFrame

\* provider.getBalance answers: the low-balance skip, or on to the fees.
Aud_GetBalance ==
  /\ aud.pc = "getBalance"
  /\ \/ \E b \in AudBalances :
          aud' = IF b < AudMinBalance
                 THEN AudReturn(LogTransaction(
                        [aud EXCEPT !.results.skipped = @ + 1,
                                    !.balance = b], "Skipped"))
                 ELSE [aud EXCEPT !.balance = b, !.pc = "getFeeData"]
     \/ aud' = AudCatch(aud)
  /\ AudFrame

\* provider.getFeeData answers.  A missing fee field throws, and so does
\* the gas cost of line 98; lines 99-127 would follow a gas cost that is a
\* BigInt.
Aud_GetFeeData ==
  /\ aud.pc = "getFeeData"
  /\ \/ \E fd \in AudFeeData :
          aud' = IF fd.maxFeePerGas = None \/ fd.maxPriorityFeePerGas = None
                 THEN AudCatch(aud)
                 ELSE IF AudGasCost(fd).type = "TypeError"
                 THEN AudCatch(aud)
                 ELSE [aud EXCEPT !.pc = "send"]
     \/ aud' = AudCatch(aud)
  /\ AudFrame

AudInit ==
  /\ aud = AudStart
  /\ AudOnly

AudNext ==
  \/ Aud_Initialize
  \/ Aud_Ready
  \/ Aud_ProcessWallet
  \/ Aud_GetBalance
  \/ Aud_GetFeeData

SpecAudit == AudInit /\ [][AudNext]_vars

---------------------------------------------------------------------------
(* donut: donut dashboard script, src/index.js lines 404-567 *)

\* rpcEndpoints.length
DonutEndpoints == 3
\* The literal 0.001 of sendETH, in 10^-7 ETH.
DonutReserve == 10000
\* Balances provider.getBalance answers, in 10^-7 ETH.
DonutBalances == {0, 10000, 10004, 10006, 30000}

\* queryFailed counts the wallets whose provider.getBalance threw.
DonutStart ==
  [pc |-> "load", keys |-> 0, i |-> 0, success |-> 0, failed |-> 0,
   results |-> <<>>, queryFailed |-> 0, balance |-> 0, value |-> 0,
   sent |-> FALSE, complete |-> FALSE, exit |-> None]

\* An exception nobody catches (module top level, or the promise of
\* runConsolidator) ends the process with code 1.
DonutCrash(d) == [d EXCEPT !.pc = "exited", !.exit = Some(1)]

\* connectProvider: the first endpoint that answers getBlockNumber, 0 when
\* none of them does and the function throws.
ConnectProvider(answers) ==
  IF \E k \in 1..DonutEndpoints : answers[k]
  THEN CHOOSE k \in 1..DonutEndpoints :
         answers[k] /\ \A j \in 1..(k - 1) : ~answers[j]
  ELSE 0

\* The module's top level: the files are read (every non-empty line is a
\* key) and the target address is checked.
Donut_Load ==
  /\ donut.pc = "load"
  /\ \E filesExist \in BOOLEAN, targetValid \in BOOLEAN, n \in 0..MaxKeys :
       donut' = IF filesExist /\ targetValid
                THEN [donut EXCEPT !.keys = n, !.pc = "connect"]
                ELSE DonutCrash(donut)
  /\ DonutFrame

\* runConsolidator: provider = await connectProvider().
Donut_Connect ==
  /\ donut.pc = "connect"
  /\ \E answers \in [1..DonutEndpoints -> BOOLEAN] :
       donut' = IF ConnectProvider(answers) = 0 THEN DonutCrash(donut)
                ELSE [donut EXCEPT !.pc = "loop"]
  /\ DonutFrame

\* runConsolidator's loop head and sendETH up to the balance query; a key
\* that ethers.Wallet rejects throws outside sendETH's try block.
Donut_SendETH ==
  /\ donut.pc = "loop"
  /\ \E keyOk \in BOOLEAN :
       donut' = IF donut.i >= donut.keys
                THEN [donut EXCEPT !.pc = "idle", !.complete = TRUE]
                ELSE IF keyOk
                THEN [donut EXCEPT !.pc = "getBalance", !.balance = 0,
                                   !.value = 0, !.sent = FALSE]
                ELSE DonutCrash(donut)
  /\ DonutFrame

\* sendETH returns: updateUI, then the pause of one second.
DonutReturn(d) == [d EXCEPT !.pc = "delay"]

\* sendETH's catch block.
DonutCatch(d) ==
  DonutReturn([d EXCEPT !.failed = @ + 1,
                        !.results = Append(@, "Failed")])

\* The value of the transaction: Math.max(balance - 0.001, 0).toFixed(6).
DonutValue(amount) == ToFixed6(IF amount > 0 THEN amount ELSE 0)

\* sendETH after getBalance returned: the low-balance skip, which counts
\* nothing, or the submission.
DonutAfterBalance(d, b) ==
  IF b <= DonutReserve
  THEN DonutReturn([d EXCEPT !.balance = b])
  ELSE [d EXCEPT !.balance = b, !.value = DonutValue(b - DonutReserve),
                 !.pc = "send"]

\* getBalance: provider.getBalance answers, or throws and the catch goes
\* to connectProvider.
Donut_GetBalance ==
  /\ donut.pc = "getBalance"
  /\ \/ \E b \in DonutBalances : donut' = DonutAfterBalance(donut, b)
     \/ donut' = [donut EXCEPT !.queryFailed = @ + 1, !.pc = "reconnect"]
  /\ DonutFrame

\* getBalance's catch: provider = await connectProvider(); return 0.  When
\* no endpoint answers the error reaches sendETH's catch.
Donut_Reconnect ==
  /\ donut.pc = "reconnect"
  /\ \E answers \in [1..DonutEndpoints -> BOOLEAN] :
       donut' = IF ConnectProvider(answers) = 0 THEN DonutCatch(donut)
                ELSE DonutAfterBalance(donut, 0)
  /\ DonutFrame

\* wallet.sendTransaction answers.
Donut_Send ==
  /\ donut.pc = "send"
  /\ \/ donut' = [donut EXCEPT !.sent = TRUE, !.pc = "wait"]
     \/ donut' = DonutCatch(donut)
  /\ DonutFrame

\* sentTx.wait answers.
Donut_Wait ==
  /\ donut.pc = "wait"
  /\ \/ donut' = DonutReturn([donut EXCEPT !.success = @ + 1,
                                           !.results = Append(@, "Success")])
     \/ donut' = DonutCatch(donut)
  /\ DonutFrame

\* The pause ends, then the loop's i++.
Donut_Delay ==
  /\ donut.pc = "delay"
  /\ donut' = [donut EXCEPT !.i = @ + 1, !.pc = "loop"]
  /\ DonutFrame

\* 'escape', 'q' or Ctrl+C: process.exit(0).
Donut_KeyExit ==
  /\ donut.pc \notin {"off", "exited", "load"}
  /\ donut' = [donut EXCEPT !.pc = "exited", !.exit = Some(0)]
  /\ DonutFrame

DonutInit ==
  /\ donut = DonutStart
  /\ DonutOnly

DonutNext ==
  \/ Donut_Load
  \/ Donut_Connect
  \/ Donut_SendETH
  \/ Donut_GetBalance
  \/ Donut_Reconnect
  \/ Donut_Send
  \/ Donut_Wait
  \/ Donut_Delay
  \/ Donut_KeyExit

SpecDonut == DonutInit /\ [][DonutNext]_vars

---------------------------------------------------------------------------
(* grp: first cluster script, src/unnamed/part_005 lines 1-152, one worker.
   Line 118 reads provider.connection.url, which the client library of
   line 15 does not have; the model describes the worker that runs once
   that log line is repaired. *)

\* ethers.parseEther('0.002'), in gwei
GrpMinBalance == 2000000
\* Balances provider.getBalance answers, in gwei.
GrpBalances == {0, 2000000, 2100000, 3000000}
\* Gas units provider.estimateGas answers for a plain transfer.
GrpGasEstimates == {21000}
\* provider.getFeeData(), in gwei per gas unit.
GrpFeeData == [maxFeePerGas : {None, Some(1), Some(100)},
               gasPrice : {None, Some(1)}]

\* keys are the wallets of this worker's clusters; rows are the rows pushed
\* to the table, with the amount the wallet was left with after gas.
GrpStart ==
  [pc |-> "load", keys |-> 0, i |-> 0,
   success |-> 0, failed |-> 0, skipped |-> 0,
   balance |-> 0, gas |-> 0, amount |-> 0, costed |-> FALSE,
   rows |-> <<>>, exit |-> None]

\* processWallet is over: the row is pushed and the worker's loop goes on.
GrpReturn(g, status) ==
  [g EXCEPT !.rows = Append(@, [status |-> status, costed |-> g.costed,
                                amount |-> g.amount]),
            !.i = @ + 1, !.pc = "loop"]

\* processWallet's catch block.
GrpCatch(g) == GrpReturn([g EXCEPT !.failed = @ + 1], "Failed")

\* The module's top level: the two files are read without a check.
Grp_Load ==
  /\ grp.pc = "load"
  /\ \E filesExist \in BOOLEAN, n \in 0..MaxKeys :
       grp' = IF filesExist THEN [grp EXCEPT !.keys = n, !.pc = "loop"]
              ELSE [grp EXCEPT !.pc = "exited", !.exit = Some(1)]
  /\ GrpFrame

\* The worker's loop head and processWallet up to its balance query; a key
\* that ethers.Wallet rejects throws outside the try block and nothing
\* catches it.
Grp_ProcessWallet ==
  /\ grp.pc = "loop"
  /\ \E keyOk \in BOOLEAN :
       grp' = IF grp.i >= grp.keys THEN [grp EXCEPT !.pc = "done"]
              ELSE IF keyOk
              THEN [grp EXCEPT !.pc = "getBalance", !.balance = 0,
                               !.gas = 0, !.amount = 0, !.costed = FALSE]
              ELSE [grp EXCEPT !.pc = "exited", !.exit = Some(1)]
  /\ GrpFrame

\* provider.getBalance answers.
Grp_GetBalance ==
  /\ grp.pc = "getBalance"
  /\ \/ \E b \in GrpBalances :
          grp' = IF b < GrpMinBalance
                 THEN GrpReturn([grp EXCEPT !.balance = b,
                                            !.skipped = @ + 1], "Skipped")
                 ELSE [grp EXCEPT !.balance = b, !.pc = "estimateGas"]
     \/ grp' = GrpCatch(grp)
  /\ GrpFrame

\* provider.estimateGas answers.
Grp_EstimateGas ==
  /\ grp.pc = "estimateGas"
  /\ \/ \E gas \in GrpGasEstimates :
          grp' = [grp EXCEPT !.gas = gas, !.pc = "getFeeData"]
     \/ grp' = GrpCatch(grp)
  /\ GrpFrame

\* amount = balance - gasCost goes to sendTransaction as it is.
GrpDecide(g, amount) ==
  [g EXCEPT !.amount = amount, !.costed = TRUE, !.pc = "send"]

\* provider.getFeeData answers: gasCost = gas * (maxFeePerGas || gasPrice),
\* a TypeError when both are null.
Grp_GetFeeData ==
  /\ grp.pc = "getFeeData"
  /\ \/ \E fd \in GrpFeeData :
          grp' = IF OrElse(fd.maxFeePerGas, fd.gasPrice) = None
                 THEN GrpCatch(grp)
                 ELSE GrpDecide(grp,
                        grp.balance
                          - grp.gas * OrElse(fd.maxFeePerGas, fd.gasPrice)[1])
     \/ grp' = GrpCatch(grp)
  /\ GrpFrame

\* wallet.sendTransaction({value: amount}): a negative value is rejected by
\* the client; any other value is handed to the endpoint, which answers.
Grp_Send ==
  /\ grp.pc = "send"
  /\ \/ /\ grp.amount >= 0
        /\ grp' = [grp EXCEPT !.pc = "wait"]
     \/ grp' = GrpCatch(grp)
  /\ GrpFrame

\* tx.wait answers.
Grp_Wait ==
  /\ grp.pc = "wait"
  /\ \/ grp' = GrpReturn([grp EXCEPT !.success = @ + 1], "Success")
     \/ grp' = GrpCatch(grp)
  /\ GrpFrame

\* 'escape', 'q' or Ctrl+C: process.exit(0).
Grp_KeyExit ==
  /\ grp.pc \notin {"off", "exited", "load"}
  /\ grp' = [grp EXCEPT !.pc = "exited", !.exit = Some(0)]
  /\ GrpFrame

GrpInit ==
  /\ grp = GrpStart
  /\ GrpOnly

GrpNext ==
  \/ Grp_Load
  \/ Grp_ProcessWallet
  \/ Grp_GetBalance
  \/ Grp_EstimateGas
  \/ Grp_GetFeeData
  \/ Grp_Send
  \/ Grp_Wait
  \/ Grp_KeyExit

SpecGroup == GrpInit /\ [][GrpNext]_vars

---------------------------------------------------------------------------
(* prim: the primary and its workers in the cluster scripts
   src/unnamed/part_007 (lines 224-289) and src/unnamed/part_005, second
   script (lines 328-373): the progress messages and the completion test *)

\* The two scripts; they differ in the worker's finally block and in what
\* the completion timer calls.
PrimScripts == {"part_007", "part_005"}
\* Number of workers forked: Math.min(maxWorkers or numCPUs, clusters.length).
PrimWorkerCounts == {1, 2}

RECURSIVE PrimSum(_, _)
\* The sum of field f over the workers ws.
PrimSum(ws, f) ==
  IF Len(ws) = 0 THEN 0
  ELSE ws[Len(ws)][f] + PrimSum(SubSeq(ws, 1, Len(ws) - 1), f)

\* A forked worker: share wallets in its clusters, count its local counter,
\* processed the wallets whose processWallet has returned, channel the
\* messages it has sent and the primary has not handled yet.
PrimWorker(share) ==
  [pc |-> "loop", share |-> share, count |-> 0, processed |-> 0,
   channel |-> <<>>]

PrimStart ==
  [pc |-> "fork", script |-> "part_007", total |-> 0, workers |-> <<>>,
   completed |-> 0, declared |-> FALSE, processedAtDeclare |-> 0,
   exit |-> None]

\* The primary forks the workers; every worker owns at least one cluster,
\* so at least one wallet.
Prim_Fork ==
  /\ prim.pc = "fork"
  /\ \E w \in PrimWorkerCounts :
       \E shares \in [1..w -> 1..MaxKeys] :
         LET ws == [id \in 1..w |-> PrimWorker(shares[id])] IN
         /\ PrimSum(ws, "share") <= MaxKeys
         /\ prim' = [prim EXCEPT !.workers = ws,
                                 !.total = PrimSum(ws, "share"),
                                 !.pc = "collect"]
  /\ PrimFrame

\* The count field of the worker's progress message: its running counter.
PrimProgress(count) == count

\* The worker's loop: count is incremented, processWallet is awaited and
\* the progress message is sent.  A key that ethers.Wallet rejects makes
\* processWallet throw: the loop is left through the catch block.  After
\* the last wallet part_005 goes through its finally block.
Prim_ProcessWallet(id) ==
  /\ prim.workers[id].pc = "loop"
  /\ LET wk == prim.workers[id] IN
     \E keyOk \in BOOLEAN :
       prim' = [prim EXCEPT !.workers[id] =
                  IF wk.count >= wk.share
                  THEN [wk EXCEPT !.pc = IF prim.script = "part_005"
                                         THEN "finally" ELSE "done"]
                  ELSE IF keyOk
                  THEN [wk EXCEPT !.count = @ + 1, !.processed = @ + 1,
                                  !.channel =
                                     Append(@, PrimProgress(wk.count + 1))]
                  ELSE [wk EXCEPT !.count = @ + 1,
                                  !.pc = IF prim.script = "part_005"
                                         THEN "finally" ELSE "done"]]
  /\ PrimFrame

\* part_005, the worker's finally block: the counter is sent once more.
Prim_Finally(id) ==
  /\ prim.workers[id].pc = "finally"
  /\ LET wk == prim.workers[id] IN
     prim' = [prim EXCEPT !.workers[id] =
                [wk EXCEPT !.channel = Append(@, PrimProgress(wk.count)),
                           !.pc = "done"]]
  /\ PrimFrame

\* The primary's 'message' handler takes the oldest message of one worker:
\* completed += count, and the completion test arms the timer.
Prim_Message(id) ==
  /\ Len(prim.workers[id].channel) > 0
  /\ LET c == prim.completed + Head(prim.workers[id].channel)
         p == [prim EXCEPT !.completed = c,
                           !.workers[id].channel = Tail(@)]
     IN  prim' = IF c >= prim.total /\ ~prim.declared
                 THEN [p EXCEPT !.declared = TRUE,
                                !.processedAtDeclare =
                                   PrimSum(prim.workers, "processed")]
                 ELSE p
  /\ PrimFrame

\* The completion timer fires: gracefulShutdown kills the workers
\* (part_007) or process.exit(0) ends the primary and with it the workers
\* (part_005).
Prim_Timer ==
  /\ prim.pc = "collect"
  /\ prim.declared
  /\ prim' = [prim EXCEPT !.pc = "exited", !.exit = Some(0)]
  /\ PrimFrame

PrimInit ==
  /\ \E s \in PrimScripts : prim = [PrimStart EXCEPT !.script = s]
  /\ PrimOnly

PrimIds == IF prim.pc = "collect" THEN 1..Len(prim.workers) ELSE {}

PrimNext ==
  \/ Prim_Fork
  \/ \E id \in PrimIds : Prim_ProcessWallet(id)
  \/ \E id \in PrimIds : Prim_Finally(id)
  \/ \E id \in PrimIds : Prim_Message(id)
  \/ Prim_Timer

SpecPrimary == PrimInit /\ [][PrimNext]_vars

---------------------------------------------------------------------------
(* Claims about box and xfer *)

\* C8: a wallet with zero balance, or with a balance too low to send, is a
\* skip and not a failure: the step that finds such a balance submits no
\* transaction and leaves the failed counter as it was.
C8_SkipIsNotFailure ==
  [][/\ (/\ box.pc = "getBalance"
         /\ box'.pc # "exited"
         /\ box'.balance # None
         /\ box'.balance[1] <= BoxReserve)
          => box'.failed = box.failed /\ box'.submitted = box.submitted
     /\ (/\ xfer.pc = "getBalance"
         /\ xfer'.balance # None
         /\ XferSkips(xfer'.balance[1]))
          => xfer'.failed = xfer.failed /\ xfer'.submitted = xfer.submitted
    ]_vars

\* The two halves of C8, one script each.
C8_BoxSkipIsNotFailure ==
  [][(/\ box.pc = "getBalance"
      /\ box'.pc # "exited"
      /\ box'.balance # None
      /\ box'.balance[1] <= BoxReserve)
       => box'.failed = box.failed /\ box'.submitted = box.submitted]_vars

C8_XferSkipIsNotFailure ==
  [][(/\ xfer.pc = "getBalance"
      /\ xfer'.balance # None
      /\ XferSkips(xfer'.balance[1]))
       => xfer'.failed = xfer.failed /\ xfer'.submitted = xfer.submitted]_vars

\* What does hold in both scripts: such a wallet submits no transaction.
C8_SkipSubmitsNothing ==
  [][/\ (/\ box.pc = "getBalance"
         /\ box'.pc # "exited"
         /\ box'.balance # None
         /\ box'.balance[1] <= BoxReserve)
          => box'.submitted = box.submitted /\ box'.pc = "loop"
     /\ (/\ xfer.pc = "getBalance"
         /\ xfer'.balance # None
         /\ XferSkips(xfer'.balance[1]))
          => xfer'.submitted = xfer.submitted /\ xfer'.pc = "delay"
    ]_vars

---------------------------------------------------------------------------
(* Claims about dash and clu *)

\* The fee rate the gas cost is computed from.
DashRate == OrElse(dash.feeData[1].maxFeePerGas, dash.feeData[1].gasPrice)[1]
CluRate == OrElse(clu.feeData[1].maxFeePerGas, clu.feeData[1].gasPrice)[1]

\* C1 as stated: whenever a transfer is submitted its value is strictly
\* greater than zero and strictly less than the fetched balance, for every
\* balance and every non-negative fee rate.
C1_ValueStrictlyInsideBalance ==
  /\ dash.pc # "off" /\ dash.decision = "send" =>
       0 < dash.amount /\ dash.amount < dash.balance[1]
  /\ clu.pc # "off" /\ clu.decision = "send" =>
       0 < clu.amount /\ clu.amount < clu.balance[1]

\* C1 as amended: the submitted value is strictly greater than zero; it is
\* strictly less than the fetched balance when the fee rate used is positive
\* and equal to the balance when that fee rate is zero.
C1_ValueInsideBalanceForPositiveFee ==
  /\ dash.pc # "off" /\ dash.decision = "send" =>
       /\ 0 < dash.amount
       /\ DashRate > 0 => dash.amount < dash.balance[1]
       /\ DashRate = 0 => dash.amount = dash.balance[1]
  /\ clu.pc # "off" /\ clu.decision = "send" =>
       /\ 0 < clu.amount
       /\ CluRate > 0 => clu.amount < clu.balance[1]
       /\ CluRate = 0 => clu.amount = clu.balance[1]

C1_Witness ==
  /\ clu.pc = "wait"
  /\ clu.balance = Some(2016001)
  /\ CluRate = 80
  /\ clu.amount = 1

\* The decision as the specification words it: skip below 0.002 ETH, skip
\* when balance - 21000 * feeRate * 120 / 100 <= 0, else send that amount.
RefDecide(balance, feeRate) ==
  IF balance < 2000000 THEN [kind |-> "skip", amount |-> 0]
  ELSE IF balance - ((21000 * feeRate * 120) \div 100) <= 0
       THEN [kind |-> "skip", amount |-> 0]
  ELSE [kind |-> "send", amount |-> balance - ((21000 * feeRate * 120) \div 100)]

\* C2: the decision processWallet of part_010 takes equals the reference
\* decision, for every balance and fee rate: a wallet goes on to the fee
\* query only when the reference does not skip it for its balance alone,
\* and what is decided after the fee query is the reference's decision.
C2_DecisionMatchesReference ==
  dash.pc # "off" =>
    /\ dash.pc = "getFeeData" => dash.balance[1] >= 2000000
    /\ dash.decision \in {"skip", "send"} =>
         IF dash.feeData = None
         THEN /\ dash.decision = "skip"
              /\ \A r \in {0, 1, 80, 100} :
                   RefDecide(dash.balance[1], r).kind = "skip"
         ELSE [kind |-> dash.decision, amount |-> dash.amount]
                = RefDecide(dash.balance[1], DashRate)

C2_Witness ==
  /\ dash.pc = "wait"
  /\ dash.balance = Some(2520001)
  /\ DashRate = 100
  /\ dash.decision = "send" /\ dash.amount = 1

\* C9: when processWallet of part_010 decides to send amount from balance,
\* the same decision applied to the remainder balance - amount with the same
\* fee quote is a skip.
C9_ResweepSkips ==
  dash.pc # "off" /\ dash.decision = "send" =>
    DashDecide(dash.balance[1] - dash.amount, dash.feeData[1]).kind = "skip"

C9_Witness ==
  /\ dash.pc = "wait"
  /\ dash.decision = "send"
  /\ ~DashLowBalance(dash.balance[1] - dash.amount)

---------------------------------------------------------------------------
(* Claims about con *)

ConDone == con.stats.success + con.stats.failed + con.stats.skipped

\* C3: every wallet produces exactly one outcome.  Whenever processWallet
\* has returned (run is in its delay, at its loop head or past the final
\* report) success + failed + skipped = processed, and at the final report
\* all of them equal the number of loaded keys.
C3_OneOutcomePerWallet ==
  con.pc # "off" =>
    /\ (con.pc \in {"delay", "loop"} \/ con.reported) =>
         ConDone = con.stats.processed /\ Len(con.log) = ConDone
    /\ con.reported =>
         ConDone = con.keys /\ con.stats.processed = con.keys

C3_Witness ==
  /\ con.reported
  /\ con.keys = 3
  /\ con.stats = [processed |-> 3, success |-> 1, failed |-> 1, skipped |-> 1]

\* C4: a wallet whose balance query failed on every attempt is recorded as
\* failed, never as skipped, and the run goes on: a fatal error only happens
\* before the first wallet, and the run only comes to rest after every
\* loaded key has been processed.
C4_BalanceFailureIsFailed ==
  con.pc # "off" =>
    /\ \A k \in 1..Len(con.log) :
         con.log[k].bal = "err" => con.log[k].outcome = "failed"
    /\ con.stats.failed >=
         Cardinality({k \in 1..Len(con.log) : con.log[k].bal = "err"})
    /\ con.fatal # "" => con.stats.processed = 0
    /\ con.pc = "idle" => con.fatal # "" \/ Len(con.log) = con.keys

C4_Witness ==
  /\ con.reported
  /\ Len(con.log) = 2
  /\ con.log[1].bal = "err" /\ con.log[1].outcome = "failed"
  /\ con.log[2].outcome = "success"

\* C5: wallet A is sendable, its first submission times out and the retry
\* succeeds; wallet B's balance query fails on every attempt; wallet C is
\* empty.  The final counters are success 1, failed 1, skipped 1.
C5_Scenario ==
  /\ con.reported
  /\ con.keys = 3
  /\ con.log[1].bal = "ok" /\ con.log[1].send = <<"TIMEOUT", "ok">>
  /\ con.log[2].bal = "err"
  /\ con.log[3].bal = "zero"

C5_ScenarioCounters ==
  C5_Scenario =>
    con.stats.success = 1 /\ con.stats.failed = 1 /\ con.stats.skipped = 1

C5_Witness == C5_Scenario

ConSendCalls ==
  {k \in 1..Len(con.calls) : con.calls[k].fn = "sendTransactionWithRetry"}

\* C6: after a submission attempt failed with INSUFFICIENT_FUNDS no further
\* attempt is made: such an attempt is the last one of its call, and the
\* call is over.
C6_NoRetryAfterInsufficientFunds ==
  con.pc # "off" =>
    /\ \A k \in ConSendCalls :
         LET call == con.calls[k] IN
           \A j \in 1..Len(call.att) :
             call.att[j] = "INSUFFICIENT_FUNDS" =>
               j = Len(call.att) /\ call.result = "raised"
    /\ \A w \in 1..Len(con.log) :
         \A j \in 1..Len(con.log[w].send) :
           con.log[w].send[j] = "INSUFFICIENT_FUNDS" => j = Len(con.log[w].send)

C6_Witness ==
  /\ con.pc = "catchBalance"
  /\ \E k \in ConSendCalls :
       con.calls[k].att = <<"TIMEOUT", "INSUFFICIENT_FUNDS">>

\* C7: a retry call makes at most MAX_RETRIES attempts, returns at its first
\* successful attempt without trying again, and raises only when every
\* attempt it made has failed.
C7_BoundedRetries ==
  con.pc # "off" =>
    \A k \in 1..Len(con.calls) :
      LET call == con.calls[k]
          n    == Len(call.att)
      IN  /\ n <= MAX_RETRIES
          /\ \A j \in 1..(n - 1) : call.att[j] # "ok"
          /\ call.result = "returned" <=> (n >= 1 /\ call.att[n] = "ok")
          /\ call.result = "raised" =>
               n >= 1 /\ \A j \in 1..n : call.att[j] # "ok"
          /\ call.result = "pending" =>
               /\ k = Len(con.calls)
               /\ con.pc \in {"getBalance", "send", "wait", "catchBalance",
                              "exited"}

C7_Witness ==
  /\ con.pc = "wait"
  /\ Len(con.calls) = 2
  /\ con.calls[1].att = <<"err", "err", "ok">>
  /\ con.calls[1].result = "returned"
  /\ con.calls[2].att = <<"TIMEOUT", "TIMEOUT">>

---------------------------------------------------------------------------
(* Claims about con and chunk *)

\* The configuration con read is one loadConfig rejects.
ConConfigInvalid ==
  /\ con.pc # "off"
  /\ con.cfg # None
  /\ LoadConfig(con.cfg[1]) # "ok"

\* The configuration chunk read has a missing file, a target that is no
\* address or no key.
ChunkConfigInvalid ==
  /\ chunk.pc \notin {"off", "load"}
  /\ (~chunk.filesExist \/ ~chunk.targetValid \/ chunk.keys = 0)

\* C10, for ETHConsolidator.run alone: with an invalid configuration no
\* balance query and no transfer is made for any wallet.
C10_ConInvalidConfigProcessesNothing ==
  ConConfigInvalid =>
    /\ con.stats.processed = 0
    /\ con.calls = <<>>
    /\ con.log = <<>>

\* C10: a configuration error (missing input file, invalid destination
\* address, empty key list) aborts the run before any wallet is processed:
\* in ETHConsolidator.run and in loadFiles/main of the chunked cluster
\* script no balance query and no transfer happens for any wallet when the
\* configuration is invalid.
C10_InvalidConfigProcessesNothing ==
  /\ ConConfigInvalid =>
       con.stats.processed = 0 /\ con.calls = <<>>
  /\ ChunkConfigInvalid =>
       chunk.queries = 0 /\ chunk.transfers = 0

\* C10, what the chunked cluster script does keep: with an invalid
\* configuration no transfer is sent, and with a missing file or no key no
\* balance is queried.
C10_ChunkInvalidConfigSendsNothing ==
  ChunkConfigInvalid =>
    /\ chunk.transfers = 0
    /\ (~chunk.filesExist \/ chunk.keys = 0) => chunk.queries = 0

---------------------------------------------------------------------------
(* Claims about con and est *)

\* C11: the process exit code is 0 for a run that completed its loop and
\* non-zero whenever the configuration could not be loaded or no endpoint
\* could be connected, in ETHConsolidator.run with its key handler and in
\* main of the estimate-gas dashboard.
C11_ExitCodeTellsFatal ==
  /\ con.pc = "exited" =>
       /\ con.reported => con.exit = Some(0)
       /\ con.fatal # "" => con.exit # Some(0)
  /\ est.pc = "exited" =>
       /\ est.completed => est.exit = Some(0)
       /\ est.fatal \in {"loadFiles", "connect"} => est.exit # Some(0)

\* The half of C11 that holds: a run that completed its loop exits with 0.
C11_CompletedRunExitsZero ==
  /\ con.pc = "exited" /\ con.reported => con.exit = Some(0)
  /\ est.pc = "exited" /\ est.completed => est.exit = Some(0)

\* C11 for con alone and for est alone.
C11_ConFatalExitsNonZero ==
  con.pc = "exited" /\ con.fatal # "" => con.exit # Some(0)
C11_EstFatalExitsNonZero ==
  est.pc = "exited" /\ est.fatal \in {"loadFiles", "connect"} =>
    est.exit # Some(0)

---------------------------------------------------------------------------
(* Claims about con and tab *)

\* C12 for one consolidator c with n endpoints: the endpoints are probed in
\* list order, the first endpoint whose probe succeeds is adopted and none
\* is probed after it, and the connection error is raised if and only if
\* every endpoint's probe failed.
C12_Connect(c, n, msg) ==
  /\ c.rpc \in 1..n
  /\ c.pc = "connect" => c.provider = 0 /\ c.firstLive = 0
  /\ c.provider # 0 => c.provider = c.firstLive /\ c.rpc = c.provider
  /\ c.fatal = msg <=>
       c.pc # "connect" /\ c.rpc = n /\ c.firstLive = 0 /\ c.provider = 0

\* C12: connect tries the endpoints in list order, adopts the first one
\* whose liveness probe succeeds, probes no later one, and raises the
\* connection error if and only if every probe failed, in ETHConsolidator
\* of index.js and of part_003.
C12_ConnectAdoptsFirstLive ==
  /\ con.pc \notin {"off", "exited"} =>
       C12_Connect(con, NumEndpoints, "Network connection failed")
  /\ tab.pc \notin {"off", "exited"} =>
       C12_Connect(tab, TabEndpoints, "Couldn't connect to any RPC")

\* C12 for part_003 alone.
C12_TabConnectAdoptsFirstLive ==
  tab.pc \notin {"off", "exited"} =>
    C12_Connect(tab, TabEndpoints, "Couldn't connect to any RPC")

\* C12 for index.js when Network.chainId is a number.
C12_ConConnectWithNumberChainId ==
  con.pc \notin {"off", "exited"} /\ con.lib = "number" =>
    C12_Connect(con, NumEndpoints, "Network connection failed")

---------------------------------------------------------------------------
(* Claims about chunk *)

\* What one call of processWallet does with the answers r: which counter
\* it increments, or "crash" when the key is rejected.
RefOutcome(r, targetValid) ==
  IF ~r.keyOk THEN "crash"
  ELSE IF r.balance = None THEN "failed"
  ELSE IF r.balance[1] < 2000000 THEN "skipped"
  ELSE IF r.feeData = None \/ ~targetValid \/ r.gas = None THEN "failed"
  ELSE IF OrElse(r.feeData[1].maxFeePerGas, r.feeData[1].gasPrice) = None
       THEN "failed"
  ELSE IF r.balance[1] - r.gas[1] * OrElse(r.feeData[1].maxFeePerGas,
                                           r.feeData[1].gasPrice)[1] <= 0
       THEN "skipped"
  ELSE IF r.send /\ r.wait THEN "success"
  ELSE "failed"

\* The number of wallets a single sequential pass over the whole key list
\* counts as outcome o.
RefTotal(o) ==
  Cardinality({k \in 1..Len(chunk.resp) :
                 RefOutcome(chunk.resp[k], chunk.targetValid) = o})

\* C13: the totals the primary of the chunked cluster script prints after
\* merging the workers' messages equal the totals of a single sequential
\* pass over the whole list with the same answers of the chain client, for
\* every worker count and every arrival order of the messages.
C13_MergedTotalsEqualSequential ==
  chunk.pc # "off" /\ chunk.printed =>
    /\ chunk.success = RefTotal("success")
    /\ chunk.failed = RefTotal("failed")
    /\ chunk.skipped = RefTotal("skipped")

C13_Witness ==
  /\ chunk.pc # "off" /\ chunk.printed
  /\ chunk.maxWorkers = 2 /\ chunk.keys = 3
  /\ chunk.success = 1 /\ chunk.failed = 1 /\ chunk.skipped = 1

---------------------------------------------------------------------------
(* Claims about clu and chunk *)

\* The workers of part_013 in whose clusters key index k falls.
C14_CluOwners(k) ==
  {id \in 1..CluForked(clu.keys, clu.maxWorkers) :
     k \in CluWorkerWallets(clu.keys, clu.maxWorkers, id)}

\* The workers of part_008 in whose chunk key index k falls.
C14_ChunkOwners(k) ==
  {id \in 1..chunk.maxWorkers :
     /\ ChunkStartIdx(id, chunk.keys, chunk.maxWorkers) <= k
     /\ k < ChunkEndIdx(id, chunk.keys, chunk.maxWorkers)}

\* List lengths and worker counts for which the chunk arithmetic of
\* part_008 is looked at before any worker is forked.
C14_MoreKeys == 7
C14_MoreWorkers == 5

C15_WorkersRunning ==
  /\ chunk.pc = "collect"
  /\ \A id \in 1..Len(chunk.workers) : chunk.workers[id].pc = "loop"

\* C15: a final summary is always printed.  Under fair scheduling the
\* primary of the chunked cluster script eventually prints the final
\* success/failed/skipped summary, whatever the workers' per-wallet
\* operations do, runs in which every wallet fails or a key is rejected
\* included.
C15_SummaryEventuallyPrinted ==
  C15_WorkersRunning ~> (chunk.pc = "exited" /\ chunk.printed)

\* What does hold: the summary is printed when ethers.Wallet accepts every
\* key, whatever the chain client answers.
C15_SummaryPrintedWhenKeysAccepted ==
  (C15_WorkersRunning /\ \A k \in 1..Len(chunk.resp) : chunk.resp[k].keyOk)
    ~> (chunk.pc = "exited" /\ chunk.printed)

---------------------------------------------------------------------------
(* Claims about dash *)

\* main of part_010 is in its loop over the wallets.
C16_InLoop == dash.pc \in {"loop", "getBalance", "getFeeData", "send", "wait"}

\* C16: every error raised while one wallet is processed (wallet
\* construction from the key, balance query, fee query, submission,
\* confirmation) becomes a Failed result and none aborts the run: once main
\* of part_010 is in its loop, no step ends the process with an error
\* code, and a step that counts a failure goes on with the next wallet.
C16_NoErrorAbortsTheLoop ==
  [][C16_InLoop =>
       /\ dash'.exit # Some(1)
       /\ dash'.failed = dash.failed + 1 =>
            dash'.pc = "loop" /\ dash'.i = dash.i + 1]_vars

\* What does hold: an error of the balance query, the fee query, the
\* submission or the confirmation is counted as failed and the loop goes
\* on with the next wallet.
C16_CaughtErrorsKeepTheLoop ==
  [][dash.pc \in {"getBalance", "getFeeData", "send", "wait"} =>
       /\ dash'.exit # Some(1)
       /\ dash'.failed = dash.failed + 1 =>
            dash'.pc = "loop" /\ dash'.i = dash.i + 1]_vars

---------------------------------------------------------------------------
(* Claims about the confirmation wait of con *)

\* processWallet waits for the receipt of a transaction that is never mined.
C17_NeverConfirmed == con.pc = "wait" /\ ~con.confirms

\* C17: the confirmation wait is bounded: a wallet whose submitted
\* transaction is never confirmed is eventually recorded as Failed and the
\* run reaches its final report (unless the user ends the process first).
C17_UnconfirmedTransferEventuallyFails ==
  C17_NeverConfirmed ~>
    (con.pc = "exited" \/ (con.reported /\ con.stats.failed > 0))

\* What does hold: a wait that the chain answers is left, and the run
\* reaches its final report unless a later transaction is never mined.
C17_AnsweredWaitReachesReport ==
  (con.pc = "wait" /\ con.confirms) ~>
    (con.pc = "exited" \/ con.reported \/ C17_NeverConfirmed)

---------------------------------------------------------------------------
(* Claims about the source accounts of con *)

\* wallet.sendTransaction was called for the wallet being processed: an
\* attempt of sendTransactionWithRetry is recorded or awaits its receipt.
C18_Submitted ==
  /\ con.pc # "off"
  /\ \/ con.pc = "wait"
     \/ Len(SendAttempts(con)) > 0

\* C18: the destination is never used as a source account: no transfer is
\* submitted from a wallet whose address equals the target address.
C18_TargetIsNeverASource == C18_Submitted => con.address # "target"

\* What does hold: every transfer that is submitted goes to the target
\* address read by loadConfig, from a wallet with a balance above the
\* reserve, whatever the wallet's own address is.
C18_SubmittedOnlyAboveReserve ==
  C18_Submitted => con.cfg # None /\ con.bal = "ok"

---------------------------------------------------------------------------
(* Claims about the Success and Failed records of wal and box *)

\* The statuses walletTable of part_006 shows for wallet w.
C19_WalStatuses(w) ==
  {wal.rows[k].status : k \in {j \in 1..Len(wal.rows) : wal.rows[j].wallet = w}}

\* C19: a wallet is recorded as Success only after its transfer has been
\* confirmed, and no wallet has both a Success and a Failed record: in
\* part_006 every wallet with a Success row has the receipt of its
\* transaction and no Failed row, and in part_004 every wallet with a
\* Success row has a transaction that is mined.
C19_SuccessMeansConfirmed ==
  /\ wal.pc # "off" =>
       \A w \in 0..MaxKeys :
         "Success" \in C19_WalStatuses(w) =>
           w \in wal.confirmed /\ "Failed" \notin C19_WalStatuses(w)
  /\ box.pc # "off" =>
       \A k \in 1..Len(box.tableData) :
         box.tableData[k] = "Success" => (k - 1) \in box.mined

\* The part of the claim about part_006 alone.
C19_WalSuccessMeansConfirmed ==
  wal.pc # "off" =>
    \A w \in 0..MaxKeys :
      "Success" \in C19_WalStatuses(w) =>
        w \in wal.confirmed /\ "Failed" \notin C19_WalStatuses(w)

\* The part of the claim about part_004 alone.
C19_BoxSuccessMeansConfirmed ==
  box.pc # "off" =>
    \A k \in 1..Len(box.tableData) :
      box.tableData[k] = "Success" => (k - 1) \in box.mined

\* What does hold: in part_006 a wallet has at most two rows and at most
\* one of them says Failed; in part_004 a wallet has one row and the
\* success counter is the number of Success rows.
C19_RowsPerWallet ==
  /\ wal.pc # "off" =>
       \A w \in 0..MaxKeys :
         /\ Cardinality({k \in 1..Len(wal.rows) :
                           wal.rows[k].wallet = w}) <= 2
         /\ Cardinality({k \in 1..Len(wal.rows) :
                           /\ wal.rows[k].wallet = w
                           /\ wal.rows[k].status = "Failed"}) <= 1
  /\ box.pc # "off" =>
       /\ Len(box.tableData) <= box.i
       /\ box.success = Cardinality({k \in 1..Len(box.tableData) :
                                       box.tableData[k] = "Success"})

---------------------------------------------------------------------------
(* Claims about the transaction log of aud *)

\* earlier is a prefix of later.
C20_IsPrefix(earlier, later) ==
  /\ Len(earlier) <= Len(later)
  /\ \A k \in 1..Len(earlier) : later[k] = earlier[k]

C20_AppendOnly ==
  [][aud.pc # "off" => C20_IsPrefix(aud.logFile, aud'.logFile)]_vars

\* What does hold: every call of processWallet that returns appends exactly
\* one record, the one of its wallet; a call that throws appends none.
C20_OneRecordPerReturnedCall ==
  aud.pc \in {"loop", "exited"} =>
    /\ Len(aud.logFile) = aud.i - aud.thrown
    /\ Len(aud.logFile) =
         aud.results.success + aud.results.failed + aud.results.skipped
    /\ \A j, k \in 1..Len(aud.logFile) :
         j < k => aud.logFile[j].wallet < aud.logFile[k].wallet

---------------------------------------------------------------------------
(* Claims about the user interrupt of con and dash *)

\* con and dash, the two scripts with an interrupt handler named by C21.
InterruptInit == ConInit \/ DashInit
InterruptNext == ConNext \/ DashNext
SpecInterrupt == InterruptInit /\ [][InterruptNext]_vars

\* The process was ended by the user while its loop over the wallets was
\* not finished.
C21_ConInterrupted ==
  /\ con.pc = "exited"
  /\ con.keys > 0 /\ con.i < con.keys /\ con.fatal = ""
C21_DashInterrupted ==
  /\ dash.pc = "exited" /\ dash.exit = Some(0)
  /\ dash.screen # "none" /\ dash.i < dash.keys

\* C21: on a user interrupt during a run no new wallet processing is
\* started afterwards and the partial summary is reported before the
\* process ends: index.js has printed its report, part_010 still shows
\* its counters.
C21_InterruptReportsPartialSummary ==
  /\ C21_ConInterrupted => con.reported
  /\ C21_DashInterrupted => dash.screen = "up"

\* What does hold: after the interrupt no step is taken, so no new wallet
\* is started.
C21_NoWalletStartedAfterInterrupt ==
  [][/\ con.pc = "exited" => con' = con
     /\ dash.pc = "exited" => dash' = dash]_vars

---------------------------------------------------------------------------
(* Claims about the order of the steps of dash *)

\* C22: within one wallet of part_010 the steps are strictly sequential:
\* the balance is known before the fee query starts, the fee data before
\* the decision, the decision to send before the submission and the
\* confirmation wait; and no step of a wallet starts before every earlier
\* wallet is finished (counted in exactly one counter).
C22_StepsInOrder ==
  dash.pc \in {"getBalance", "getFeeData", "send", "wait"} =>
    /\ dash.i < dash.keys
    /\ dash.success + dash.failed + dash.skipped = dash.i
    /\ dash.pc = "getBalance" =>
         dash.balance = None /\ dash.feeData = None /\ dash.decision = "none"
    /\ dash.pc = "getFeeData" =>
         dash.balance # None /\ dash.feeData = None /\ dash.decision = "none"
    /\ dash.pc \in {"send", "wait"} =>
         /\ dash.balance # None /\ dash.feeData # None
         /\ dash.decision = "send" /\ dash.amount > 0

\* The second wallet's transaction awaits its confirmation.
C22_Witness == dash.pc = "wait" /\ dash.i = 1

---------------------------------------------------------------------------
(* Claims about donut *)

\* sendETH of the donut script has built its transaction.
C23_Submitting == donut.pc \in {"send", "wait"}

\* C23: sendETH leaves 0.001 ETH in every wallet it sweeps: a wallet at or
\* below 0.001 ETH is skipped, and for every other balance the submitted
\* value is positive and never exceeds balance - 0.001 ETH.
C23_LeavesReserve ==
  C23_Submitting =>
    /\ donut.balance > DonutReserve
    /\ donut.value > 0
    /\ donut.value <= donut.balance - DonutReserve

\* What does hold: a wallet at or below 0.001 ETH is skipped, and the value
\* is balance - 0.001 ETH rounded to the nearest multiple of 10^-6 ETH,
\* half a unit above or below it at most, and possibly zero.
C23_ValueIsRoundedAmount ==
  C23_Submitting =>
    /\ donut.balance > DonutReserve
    /\ donut.value >= 0
    /\ donut.value % 10 = 0
    /\ donut.value - (donut.balance - DonutReserve) \in -4..5


\* C24: for a run in which the balance query fails for exactly K wallets
\* the final failed counter is at least K: a wallet whose balance query
\* throws is counted as failed, not treated as a low-balance skip.
C24_QueryFailuresAreCounted ==
  donut.pc # "off" /\ donut.complete => donut.failed >= donut.queryFailed

\* What does hold: the failed counter is the number of Failed rows, and a
\* wallet is counted at most once.
C24_FailedCounterMatchesRows ==
  donut.pc # "off" =>
    /\ donut.failed = Cardinality({k \in 1..Len(donut.results) :
                                     donut.results[k] = "Failed"})
    /\ donut.success + donut.failed = Len(donut.results)
    /\ Len(donut.results) <= donut.i + 1

---------------------------------------------------------------------------
(* Claims about the amounts of tab *)

\* processWallet of part_003 has built its transaction.
C25_Submitting == tab.pc \in {"send", "wait"}

\* C25: every transfer submitted by processWallet of part_003 can be paid
\* for: the submitted value plus the gas cost gasPrice * 21000 never
\* exceeds the wallet's fetched balance.
C25_TransferIsAffordable ==
  C25_Submitting => tab.value + tab.gasCost <= tab.balance[1]

\* What does hold: the wallet is sent only when the balance exceeds the gas
\* cost, and value plus gas cost exceeds the balance by less than 10^-6 ETH.
C25_TransferWithinRounding ==
  C25_Submitting =>
    /\ tab.balance[1] > tab.gasCost
    /\ tab.value + tab.gasCost <= tab.balance[1] + 5

---------------------------------------------------------------------------
(* Claims about the buffered fee cost of est and dash *)

\* est and dash, the two scripts that buffer the fee cost by 1.2.
FeeInit == EstInit \/ DashInit
FeeNext == EstNext \/ DashNext
SpecFee == FeeInit /\ [][FeeNext]_vars

\* The fee rate feeData.maxFeePerGas || feeData.gasPrice of a fee quote.
C26_Rate(fd) == OrElse(fd.maxFeePerGas, fd.gasPrice)[1]

\* part_002 has computed a gas cost from an estimate.
C26_EstCosted == est.pc # "off" /\ est.gasCost # None /\ est.gas > 0
\* part_010 has decided to send: the gas cost is balance - amount.
C26_DashCosted == dash.pc \in {"send", "wait"}

\* C26: the buffered fee cost is rounded up, never down: the integer
\* gasCost subtracted from the balance is never smaller than the exact
\* product gasUnits * feeRate * 1.2 (compared after multiplying by 10).
\* The comparison is the same in every unit of the client's integers.
C26_GasCostNeverBelowExact ==
  /\ C26_EstCosted =>
       est.gasCost[1] * 10 >= est.gas * C26_Rate(est.feeData[1]) * 12
  /\ C26_DashCosted =>
       (dash.balance[1] - dash.amount) * 10
         >= DashGasLimit * C26_Rate(dash.feeData[1]) * 12

\* What does hold: with 21000 gas units the division by 100 is exact, and
\* with an estimate the cost is less than one unit below the exact product.
C26_GasCostWithinOneUnit ==
  /\ C26_EstCosted =>
       (est.gasCost[1] + 1) * 10 > est.gas * C26_Rate(est.feeData[1]) * 12
  /\ C26_DashCosted =>
       (dash.balance[1] - dash.amount) * 10
         = DashGasLimit * C26_Rate(dash.feeData[1]) * 12

---------------------------------------------------------------------------
(* Claims about grp *)

C27_NegativeValueNeverBroadcast ==
  grp.pc # "off" =>
    /\ grp.pc = "wait" => grp.amount >= 0
    /\ grp.pc \in {"estimateGas", "getFeeData", "send", "wait"}
         => grp.balance >= GrpMinBalance
    /\ \A k \in 1..Len(grp.rows) :
         grp.rows[k].status = "Success" => grp.rows[k].amount >= 0

---------------------------------------------------------------------------
(* Claims about the transactions con broadcasts *)

\* C28: at most one transfer is broadcast per wallet per run: over every
\* sequence of submission and confirmation failures inside
\* sendTransactionWithRetry, the number of transactions handed to the
\* network for one wallet never exceeds one.
C28_AtMostOneBroadcast == con.pc # "off" => con.broadcast <= 1

\* What does hold: a wallet has at most MAX_RETRIES transactions
\* broadcast, one per attempt, and a second one only after the wait for
\* an earlier one failed.
C28_AtMostOneBroadcastPerAttempt ==
  con.pc # "off" =>
    /\ con.broadcast <= MAX_RETRIES
    /\ con.broadcast <= Len(SendAttempts(con)) + 1
    /\ con.broadcast > 1 =>
         \E k \in 1..Len(SendAttempts(con)) : SendAttempts(con)[k] # "ok"

---------------------------------------------------------------------------
(* Claims about the completion counter of prim *)

\* The wallets whose processing has finished, over all workers.
C29_Processed == PrimSum(prim.workers, "processed")

\* C29: the primary's completed counter never exceeds the number of
\* wallets whose processing has actually finished across all workers, and
\* so the primary declares completion only after every wallet has been
\* processed.
C29_CompletedNeverAhead ==
  prim.pc # "off" =>
    /\ prim.completed <= C29_Processed
    /\ prim.declared => prim.processedAtDeclare = prim.total

\* What does hold: completed is the sum of the counts received, and it is
\* at most the sum 1 + 2 + ... of each worker's counter, plus the repeated
\* last count of part_005.
C29_CompletedIsSumOfCounts ==
  prim.pc # "off" =>
    \A n \in 0..MaxKeys :
      (\A id \in 1..Len(prim.workers) : prim.workers[id].count <= n)
        => prim.completed <= Len(prim.workers) * ((n * (n + 1)) \div 2 + n)

---------------------------------------------------------------------------
(* Claims about gracefulShutdown of dash and clu *)

\* The facts about one script's shutdown: the cleanup has run at most once,
\* and once the flag is set the process is gone with an exit code.
C30_Once(s) ==
  s.pc # "off" =>
    /\ s.cleanups <= 1
    /\ s.isShuttingDown <=> s.cleanups = 1
    /\ s.isShuttingDown => s.pc = "exited" /\ s.exit # None

\* C30: gracefulShutdown of part_010 and of part_013 is idempotent: however
\* the triggers (keys, signals, the completion timer, the error paths of
\* main) interleave, the cleanup runs at most once, and the exit code is
\* the one passed to the first invocation: after the first invocation no
\* later trigger changes the code or runs the cleanup again.
C30_ShutdownRunsOnce ==
  /\ [](C30_Once(dash) /\ C30_Once(clu))
  /\ [][/\ dash.pc # "off" /\ dash.isShuttingDown => dash' = dash
        /\ clu.pc # "off" /\ clu.isShuttingDown => clu' = clu]_vars

\* A key was pressed while the completion timer of part_010 was armed: the
\* screen is destroyed once and the code is that of the first trigger.
C30_Witness ==
  /\ dash.pc = "exited" /\ dash.i = dash.keys /\ dash.keys > 0
  /\ dash.cleanups = 1 /\ dash.screen = "destroyed" /\ dash.exit = Some(0)

\* An error path of main of part_013 shut the process down with code 1.
C30_WitnessError ==
  clu.pc = "exited" /\ clu.cleanups = 1 /\ clu.exit = Some(1)

=============================================================================
